---- MODULE Spec2Model ----
(***************************************************************************)
(* Model of the comb-desktop scraping core.                                *)
(*                                                                         *)
(*  Part I   AlibabaService (src/main/services/alibaba.service.ts): the    *)
(*           per-keyword page loop of searchSuppliersStream and            *)
(*           searchSuppliersWithProgress, with the single-page             *)
(*           BrowserService it drives.                                     *)
(*  Part II  extractSuppliersWithRetry / extractSuppliersFromPage as pure  *)
(*           operators over the cards of one results page.                 *)
(*  Part III the pooled BrowserService (browser.service.ts, second class): *)
(*           createPage, closePage, reset, terminate, the idle-cleanup     *)
(*           timer, the health-check interval and the 'disconnected'       *)
(*           event, with one step per await of real I/O.                   *)
(*  Parts IV to VIII  navigateToUrl, waitForStableState, the captcha       *)
(*           escalation, the classification of a loaded page and the       *)
(*           manual-intervention wait, each as a call followed alone.      *)
(*  Parts IX and X  page crash and restore, setActivePage and terminate()  *)
(*           of the pooled BrowserService.                                 *)
(***************************************************************************)
EXTENDS Integers, Sequences, FiniteSets, TLC

(***************************************************************************)
(* Bounds of the model.                                                    *)
(***************************************************************************)
MaxCap == 2
MaxCards == 6
MaxFaults == 3
NumCallers == 2

(***************************************************************************)
(* Program constants.                                                      *)
(***************************************************************************)
MAX_RETRIES == 3
MAX_PAGE_RETRIES == 3
MAX_CONCURRENT_PAGES == 5
BASE_RETRY_DELAY == 3000
MAX_EXTRACTION_RETRIES == 2
batchSize == 5
RecordsPerPage == 20
\* Number.MAX_SAFE_INTEGER is 2^53 - 1; the largest integer of the checker
\* stands for it here (page counters stay far below both).
MAX_SAFE_INTEGER == 2147483647

NULL == "null"

Callers == 1..NumCallers
Min(a, b) == IF a < b THEN a ELSE b

(***************************************************************************)
(* Part II.  Extraction of one results page.                               *)
(*                                                                         *)
(* A card is what its title link gives: text is the link's textContent as  *)
(* a sequence of characters (NoText when the element has none), fails says *)
(* that reading the locator throws.  An optional value is a sequence of    *)
(* length 0 or 1.                                                          *)
(***************************************************************************)
SPACE == " "
NoText == <<NULL>>
Texts == {NoText, <<SPACE>>, <<SPACE, "A">>}

RECURSIVE TrimLeft(_)
TrimLeft(s) == IF s = << >> THEN s
               ELSE IF Head(s) = SPACE THEN TrimLeft(Tail(s)) ELSE s

RECURSIVE TrimRight(_)
TrimRight(s) == IF s = << >> THEN s
                ELSE IF s[Len(s)] = SPACE THEN TrimRight(SubSeq(s, 1, Len(s) - 1)) ELSE s

\* t?.trim() || ''
Trim(t) == IF t = NoText THEN << >> ELSE TrimRight(TrimLeft(t))

\* url.startsWith(p)
StartsWith(url, p) == Len(url) >= Len(p) /\ SubSeq(url, 1, Len(p)) = p

\* The letters of "http" and "https" without their case (the flag i).
Lower(ch) ==
    IF ch = "H" THEN "h" ELSE IF ch = "T" THEN "t" ELSE IF ch = "P" THEN "p"
    ELSE IF ch = "S" THEN "s" ELSE ch

\* /^https?:\/\//i.test(url)
HasHttpScheme(url) ==
    LET l == [i \in 1..Len(url) |-> Lower(url[i])]
    IN \/ StartsWith(l, <<"h", "t", "t", "p", ":", "/", "/">>)
       \/ StartsWith(l, <<"h", "t", "t", "p", "s", ":", "/", "/">>)

SiteHost ==
    <<"w", "w", "w", ".", "a", "l", "i", "b", "a", "b", "a", ".", "c", "o", "m">>
SiteOrigin == <<"h", "t", "t", "p", "s", ":", "/", "/">> \o SiteHost

\* `https://www.alibaba.com${url}`
RootRelativeNoScheme(url) == SiteHost \o url
RootRelative(url) == SiteOrigin \o url

normalizeUrl(url) ==
    IF url = << >> THEN << >>
    ELSE IF StartsWith(url, <<"/", "/">>) THEN <<"h", "t", "t", "p", "s", ":">> \o url
    ELSE IF StartsWith(url, <<"/">>) THEN RootRelative(url)
    ELSE IF ~HasHttpScheme(url) THEN <<"h", "t", "t", "p", "s", ":", "/", "/">> \o url
    ELSE url

\* A card: text and href are what the title link gives for textContent()
\* and getAttribute('href').
Card(text, href, fails) == [text |-> text, href |-> href, fails |-> fails]
CardKinds == {Card(t, NoText, FALSE) : t \in Texts} \cup {Card(NoText, NoText, TRUE)}

SupplierInfo(index, companyName, companyURL) ==
    [id |-> index, chineseName |-> << >>, englishName |-> companyName,
     albabaURL |-> companyURL, phone |-> << >>, email |-> << >>, country |-> << >>,
     province |-> << >>, city |-> << >>, district |-> << >>, address |-> << >>,
     website |-> << >>, establishedYear |-> << >>, creditCode |-> << >>]

\* The same without the test of the name.
processSupplierCardUngated(card, index) ==
    IF card.fails THEN << >>
    ELSE <<SupplierInfo(index, Trim(card.text), normalizeUrl(Trim(card.href)))>>

\* processSupplierCard: <<record>>, or << >> for the null it returns when the
\* name is empty or when reading the card threw.
processSupplierCard(card, index) ==
    IF card.fails THEN << >>
    ELSE LET companyName == Trim(card.text)
             companyURL == normalizeUrl(Trim(card.href))
         IN IF companyName = << >> THEN << >>
            ELSE <<SupplierInfo(index, companyName, companyURL)>>

\* The records of cards from .. to of one batch: Promise.allSettled keeps the
\* fulfilled, non-null values in card order.
RECURSIVE BatchRecords(_, _, _, _)
BatchRecords(cards, pageNumber, from, to) ==
    IF from > to THEN << >>
    ELSE processSupplierCard(cards[from], (pageNumber - 1) * RecordsPerPage + from)
         \o BatchRecords(cards, pageNumber, from + 1, to)

\* Number of batches the loop of extractSuppliersFromPage runs over m cards.
Batches(m) == (m + batchSize - 1) \div batchSize

\* The for loop of extractSuppliersFromPage from index i on.  throwAt is the
\* number of the batch (1, 2, ..) after which page.waitForTimeout(500)
\* throws, 0 when it never does.  threw: the call ended in its catch, which
\* rethrows; value: what it returned; parsed: what the local `suppliers` held
\* when the call ended.
RECURSIVE ExtractLoop(_, _, _, _, _)
ExtractLoop(cards, pageNumber, i, suppliers, throwAt) ==
    IF i >= Len(cards)
    THEN [threw |-> FALSE, value |-> suppliers, parsed |-> suppliers]
    ELSE LET got == suppliers \o BatchRecords(cards, pageNumber, i + 1,
                                               Min(i + batchSize, Len(cards)))
         IN IF throwAt = (i \div batchSize) + 1
            THEN [threw |-> TRUE, value |-> << >>, parsed |-> got]
            ELSE ExtractLoop(cards, pageNumber, i + batchSize, got, throwAt)

\* extractSuppliersFromPage.  loaded: waitForSupplierCards saw a card attached
\* in time; cards: what locateSupplierCards returns.
extractSuppliersFromPage(cards, pageNumber, loaded, throwAt) ==
    IF ~loaded \/ Len(cards) = 0
    THEN [threw |-> FALSE, value |-> << >>, parsed |-> << >>]
    ELSE ExtractLoop(cards, pageNumber, 0, << >>, throwAt)

(***************************************************************************)
(* A tab as the crawl sees it: st says whether the tab answers ("ok"), has *)
(* crashed (operations throw, isClosed() is false) or is closed; loc says  *)
(* what it shows.                                                          *)
(***************************************************************************)
TabStates == {"ok", "crashed", "closed"}
DeadStates == {"crashed", "closed"}

\* What the environment decides during one call of extractSuppliersFromPage.
AttemptChoices(m) ==
    {[inTime |-> b, throwAt |-> 0, after |-> "closed"] : b \in BOOLEAN}
    \cup {[inTime |-> TRUE, throwAt |-> t, after |-> a] :
             t \in 1..Batches(m), a \in DeadStates}

\* What the environment decides during recoverPageAfterFailure.
RecoverChoices ==
    {[gotoOk |-> TRUE, closeOk |-> TRUE, createOk |-> TRUE],
     [gotoOk |-> FALSE, closeOk |-> TRUE, createOk |-> TRUE],
     [gotoOk |-> FALSE, closeOk |-> FALSE, createOk |-> TRUE],
     [gotoOk |-> FALSE, closeOk |-> TRUE, createOk |-> FALSE]}

\* One call of extractSuppliersFromPage on a tab in state st showing loc.
\* waitForTimeout throws only on a tab that died, so the tab is dead after.
ExtractAttempt(cards, pageNumber, st, loc, ch) ==
    LET visible == st = "ok" /\ loc = "search"
        seen == IF visible THEN cards ELSE << >>
        loaded == visible /\ ch.inTime /\ Len(cards) > 0
        died == loaded /\ ch.throwAt \in 1..Batches(Len(cards))
        r == extractSuppliersFromPage(seen, pageNumber, loaded, ch.throwAt)
    IN [threw |-> r.threw, value |-> r.value, parsed |-> r.parsed, died |-> died,
        st |-> IF died THEN ch.after ELSE st]

\* recoverPageAfterFailure on the tab `page` in state st.  replaced: the tab
\* was closed and a new tab was created and tracked in its place (the caller
\* keeps its reference to the closed one).  closed: page.close() was called
\* and returned.
recoverPageAfterFailure(st, loc, rc) ==
    IF st = "ok" /\ rc.gotoOk
    THEN [threw |-> FALSE, st |-> "ok", loc |-> "blank", replaced |-> FALSE]
    ELSE IF st # "closed"
         THEN IF ~rc.closeOk
              THEN [threw |-> TRUE, st |-> st, loc |-> loc, replaced |-> FALSE]
              ELSE IF ~rc.createOk
                   THEN [threw |-> TRUE, st |-> "closed", loc |-> loc, replaced |-> FALSE]
                   ELSE [threw |-> FALSE, st |-> "closed", loc |-> loc, replaced |-> TRUE]
         ELSE [threw |-> FALSE, st |-> "closed", loc |-> loc, replaced |-> FALSE]

\* extractSuppliersWithRetry from attempt number `attempt` on.  chs[a] and
\* rcs[a] are the environment's decisions in attempt a and in the recovery
\* that follows it.  lost: the records the first failing attempt had parsed;
\* replaced: how many replacement tabs the recoveries created.
RECURSIVE RetryFrom(_, _, _, _, _, _, _, _, _)
RetryFrom(cards, pageNumber, st, loc, attempt, chs, rcs, lost, replaced) ==
    LET a == ExtractAttempt(cards, pageNumber, st, loc, chs[attempt])
        nowLost == IF lost.any THEN lost
                   ELSE [any |-> a.died, records |-> IF a.died THEN a.parsed ELSE << >>]
    IN IF ~a.threw
       THEN [threw |-> FALSE, value |-> a.value, st |-> a.st, loc |-> loc,
             lost |-> nowLost, replaced |-> replaced]
       ELSE IF attempt = MAX_EXTRACTION_RETRIES - 1
            THEN [threw |-> TRUE, value |-> << >>, st |-> a.st, loc |-> loc,
                  lost |-> nowLost, replaced |-> replaced]
            ELSE LET rec == recoverPageAfterFailure(a.st, loc, rcs[attempt])
                 IN IF rec.threw
                    THEN [threw |-> TRUE, value |-> << >>, st |-> rec.st, loc |-> rec.loc,
                          lost |-> nowLost, replaced |-> replaced]
                    ELSE RetryFrom(cards, pageNumber, rec.st, rec.loc, attempt + 1, chs,
                                   rcs, nowLost,
                                   replaced + (IF rec.replaced THEN 1 ELSE 0))

NothingLost == [any |-> FALSE, records |-> << >>]
ExtractionAttempts == 0..(MAX_EXTRACTION_RETRIES - 1)
\* The attempts that are followed by a recovery: all but the last.
RecoveredAttempts == 0..(MAX_EXTRACTION_RETRIES - 2)

extractSuppliersWithRetry(cards, pageNumber, st, loc, chs, rcs) ==
    RetryFrom(cards, pageNumber, st, loc, 0, chs, rcs, NothingLost, 0)

\* Every way one call of extractSuppliersWithRetry can end on these cards;
\* canCreate: the browser is there, so a replacement tab can be created.
ExtractOutcomes(cards, pageNumber, st, loc, canCreate) ==
    {extractSuppliersWithRetry(cards, pageNumber, st, loc, chs, rcs) :
        chs \in [ExtractionAttempts -> AttemptChoices(Len(cards))],
        rcs \in [RecoveredAttempts -> {rc \in RecoverChoices : rc.createOk => canCreate}]}

(***************************************************************************)
(* Part I.  AlibabaService and the single-page BrowserService it owns.     *)
(***************************************************************************)
VARIABLES
    activeSearchTask,   \* AlibabaService.activeSearchTask is not null
    activePages,        \* AlibabaService.activePages: the tracked tab handles
    tabs,               \* the state of every tab object, "none" when there is none
    bs,                 \* the BrowserService: state, initPromise, browser, context
    task,               \* the generator of each caller: its position and locals
    faultsLeft,         \* how many more failures the environment may inject
    ex,                 \* one call of extractSuppliersWithRetry, Part II
    pool,               \* the pooled BrowserService, Part III
    procs               \* its operations in flight, Part III

others == <<ex, pool, procs>>
crawlVars == <<activeSearchTask, activePages, tabs, bs, task, faultsLeft>>

MainPage == 0
NoPage == 0 - 1
\* The pages a run is followed through (a run without cap goes on after them).
MaxPageNo == MaxCap
\* Tab handles: a visit of a page leaves at most one tab behind, and every
\* caller holds one more.
MaxHandles == MAX_RETRIES * MaxPageNo + NumCallers
Handles == 1..MaxHandles

\* pageLimit = maxPages && maxPages > 0 ? maxPages : Number.MAX_SAFE_INTEGER
PageLimit(maxPages) == IF maxPages > 0 THEN maxPages ELSE MAX_SAFE_INTEGER

(***************************************************************************)
(* BrowserService, first class of browser.service.ts.  initPromise says    *)
(* that the field holds a promise; doInitialize is taken as one step, so a *)
(* promise that is held has been fulfilled.                                *)
(***************************************************************************)
BsFresh == [state |-> "UNINITIALIZED", initPromise |-> FALSE, connected |-> FALSE,
            context |-> FALSE]

isReady(b) == b.state = "READY" /\ b.connected

\* doInitialize: cleanup() closes the main page, the context and the browser
\* (closed: every tab of the old browser is gone), then a browser, a context
\* and the main page are created.
doInitialize(b, ok) ==
    IF ok THEN [bs |-> [state |-> "READY", initPromise |-> TRUE, connected |-> TRUE,
                        context |-> TRUE],
                threw |-> FALSE, closed |-> TRUE, main |-> "ok"]
    ELSE [bs |-> [state |-> "ERROR", initPromise |-> FALSE, connected |-> FALSE,
                  context |-> FALSE],
          threw |-> TRUE, closed |-> TRUE, main |-> "none"]

Untouched(b) == [bs |-> b, threw |-> FALSE, closed |-> FALSE, main |-> "same"]

initialize(b, ok) ==
    IF b.state = "READY" THEN Untouched(b)
    ELSE IF b.initPromise THEN Untouched(b)
    ELSE doInitialize(b, ok)

\* reset(): this.initPromise = null; await this.initialize()
reset(b, ok) == initialize([b EXCEPT !.initPromise = FALSE], ok)

\* handleBrowserDisconnect: state = ERROR, then initialize().
handleBrowserDisconnect(b, ok) ==
    initialize([b EXCEPT !.state = "ERROR", !.connected = FALSE], ok)

\* Whether initialize(b, .) launches a browser, so that the launch can fail.
Launches(b) == b.state # "READY" /\ ~b.initPromise

\* The outcomes the environment may choose for a launch.
LaunchOutcomes(b) == IF Launches(b) /\ faultsLeft > 0 THEN BOOLEAN ELSE {TRUE}
LaunchCost(b, ok) == IF Launches(b) /\ ~ok THEN 1 ELSE 0

\* The tabs after an initialize/reset whose result is r.
TabsAfter(T, r) ==
    [h \in DOMAIN T |->
        IF h = MainPage
        THEN (IF r.main = "same" THEN T[h] ELSE r.main)
        ELSE IF r.closed /\ T[h] # "none" THEN "closed" ELSE T[h]]

\* A closed tab that nothing refers to any more is forgotten.
Held(tk) == {tk[c].page : c \in Callers}
Gc(T, ap, tk) ==
    [h \in DOMAIN T |->
        IF h # MainPage /\ T[h] = "closed" /\ h \notin ap /\ h \notin Held(tk)
        THEN "none" ELSE T[h]]

FreeHandles(T) == {h \in Handles : T[h] = "none"}
Fresh(T) == CHOOSE h \in FreeHandles(T) : \A g \in FreeHandles(T) : h <= g

\* cleanupResources: close every tracked tab that is not closed, then clear.
cleanupResources(T) ==
    [h \in DOMAIN T |-> IF h \in activePages /\ T[h] \in {"ok", "crashed"}
                        THEN "closed" ELSE T[h]]

(***************************************************************************)
(* The generators.                                                         *)
(***************************************************************************)
\* A run in mode "stream" is searchSuppliers consuming searchSuppliersStream
\* for the SEARCH_SUPPLIERS handler; a run in mode "progress" is the
\* SEARCH_SUPPLIERS_STREAM handler consuming searchSuppliersWithProgress.
Modes == {"stream", "progress"}

\* What the handler returns to the renderer: data is << >> when the answer
\* carries no records field, <<n>> when it carries n records (or the total n).
NoResponse == [sent |-> FALSE, success |-> FALSE, data |-> << >>]
Response(t, outcome) ==
    IF outcome = "failed" THEN [sent |-> TRUE, success |-> FALSE, data |-> << >>]
    ELSE [sent |-> TRUE, success |-> TRUE, data |-> <<t.collected>>]

NewTask(mode, maxPages, pc) ==
    [pc |-> pc, mode |-> mode, maxPages |-> maxPages, attempt |-> 0, pageNumber |-> 0,
     hasMoreResults |-> FALSE, page |-> NoPage, loc |-> "blank", navAttempt |-> 0,
     pending |-> "next", yields |-> 0, lastYield |-> 0, lastBatch |-> 0 - 1,
     lastCards |-> 0 - 1, outcome |-> "none", event |-> "none",
     delay |-> 0, collected |-> 0, response |-> NoResponse, current |-> FALSE,
     aborted |-> "no", overrun |-> FALSE, detached |-> FALSE,
     totalFound |-> 0, yieldedSum |-> 0]

InLoop(t) == t.pc \in {"loop", "nav", "classify", "yielded", "release", "catch"}

\* currentSearchController of update.handler.ts: the field current of a run
\* says that the module variable refers to the controller of that run,
\* aborted that abort() was called on that controller.  A handler that
\* starts makes its controller the current one; a handler that returns
\* sets the variable to null, whichever controller it refers to.
Settle(tk, c) ==
    IF tk[c].mode # "progress" THEN tk
    ELSE IF tk[c].pc \in {"done", "abandoned"}
    THEN [d \in Callers |-> [tk[d] EXCEPT !.current = FALSE]]
    ELSE IF task[c].pc = "idle"
    THEN [d \in Callers |-> [tk[d] EXCEPT !.current = (d = c)]]
    ELSE tk

\* currentSearchController?.signal.aborted
Aborted(tk) == \E d \in Callers : tk[d].current /\ tk[d].aborted # "no"

\* The generator ends: the finally of searchSuppliersStream, or the finally
\* of searchSuppliersWithProgress.
Finish(c, t, outcome, T, b, cost) ==
    LET tk == Settle([task EXCEPT ![c] = [t EXCEPT !.pc = "done", !.outcome = outcome,
                                                   !.page = NoPage,
                                                   !.response = Response(t, outcome)]], c)
    IN /\ task' = tk
       /\ activePages' = {}
       /\ tabs' = Gc(cleanupResources(T), {}, tk)
       /\ activeSearchTask' = IF t.mode = "stream" THEN FALSE ELSE activeSearchTask
       /\ bs' = b
       /\ faultsLeft' = faultsLeft - cost

\* An exception leaves the page loop with no tab to release: the catch of the
\* retry loop (stream), or the catch inside the while loop, which calls
\* onError and advances the page counter (progress).
Escaped(t) ==
    IF t.mode = "stream"
    THEN [t EXCEPT !.pc = "catch", !.page = NoPage]
    ELSE [t EXCEPT !.pc = "loop", !.page = NoPage, !.pageNumber = @ + 1]

\* The generator goes on with task record t.
Continue(c, t, T, ap, b, cost) ==
    LET tk == Settle([task EXCEPT ![c] = t], c)
    IN /\ task' = tk
       /\ activePages' = ap
       /\ tabs' = Gc(T, ap, tk)
       /\ bs' = b
       /\ faultsLeft' = faultsLeft - cost
       /\ UNCHANGED activeSearchTask

\* A new attempt of the retry loop starts (or the only run of the progress
\* generator): let pageNumber = 1, hasMoreResults = true.
StartAttempt(t) ==
    [t EXCEPT !.pc = "loop", !.attempt = @ + 1, !.pageNumber = 1,
              !.hasMoreResults = TRUE, !.event = "none"]

\* The first next() on the generator: the guard of searchSuppliersStream,
\* then browserService.initialize().
Call(c) ==
    LET t == task[c]
    IN /\ t.pc = "idle"
       /\ UNCHANGED others
       /\ IF t.mode = "stream" /\ activeSearchTask
          THEN /\ task' = [task EXCEPT ![c] = [t EXCEPT !.pc = "done", !.outcome = "busy",
                                                         !.response = Response(t, "busy")]]
               /\ UNCHANGED <<activeSearchTask, activePages, tabs, bs, faultsLeft>>
          ELSE \E ok \in LaunchOutcomes(bs) :
                  LET r == initialize(bs, ok)
                      T == TabsAfter(tabs, r)
                  IN IF r.threw
                     THEN Finish(c, t, "failed", T, r.bs, LaunchCost(bs, ok))
                     ELSE Continue(c, StartAttempt(t), T, activePages, r.bs, 0)

\* createAdditionalPage: ensureReady(), the context check, context.newPage().
\* The result: the service after it, whether it threw, the tabs after it.
createAdditionalPage(b, T, ok, pageOk) ==
    LET r == IF isReady(b) THEN Untouched(b) ELSE initialize(b, ok)
        T1 == TabsAfter(T, r)
    IN IF r.threw \/ ~r.bs.context \/ ~r.bs.connected \/ ~pageOk
       THEN [bs |-> r.bs, threw |-> TRUE, tabs |-> T1, page |-> NoPage]
       ELSE [bs |-> r.bs, threw |-> FALSE, tabs |-> [T1 EXCEPT ![Fresh(T1)] = "ok"],
             page |-> Fresh(T1)]

\* getActivePage: this.activePage, or it throws when there is none.
getActivePage(T) == [threw |-> T[MainPage] = "none", page |-> MainPage]

CreateCost(b, ok, pageOk) ==
    (IF ~isReady(b) THEN LaunchCost(b, ok) ELSE 0)
    + (IF ~pageOk THEN 1 ELSE 0)

CreateChoices(b) ==
    {ch \in [ok : BOOLEAN, pageOk : BOOLEAN] :
        /\ (~ch.ok => ~isReady(b) /\ Launches(b))
        /\ CreateCost(b, ch.ok, ch.pageOk) <= faultsLeft}

\* The head of the while loop, buildSearchUrl and acquireNewPage.
LoopHead(c) ==
    LET t == task[c]
    IN /\ t.pc = "loop"
       /\ UNCHANGED others
       /\ IF t.hasMoreResults /\ t.pageNumber <= PageLimit(t.maxPages)
          THEN /\ t.pageNumber <= MaxPageNo
               /\ LET t1 == [t EXCEPT !.navAttempt = 1, !.loc = "blank", !.event = "none",
                                       !.overrun = @ \/ t.aborted = "page"]
                  IN IF Cardinality(activePages) < MAX_CONCURRENT_PAGES
                     THEN \E ch \in CreateChoices(bs) :
                            LET r == createAdditionalPage(bs, tabs, ch.ok, ch.pageOk)
                                cost == CreateCost(bs, ch.ok, ch.pageOk)
                            IN IF r.threw
                               THEN Continue(c, Escaped(t1), r.tabs, activePages, r.bs, cost)
                               ELSE Continue(c, [t1 EXCEPT !.pc = "nav", !.page = r.page],
                                             r.tabs, activePages \cup {r.page}, r.bs, cost)
                     ELSE LET r == getActivePage(tabs)
                          IN IF r.threw
                             THEN Continue(c, Escaped(t1), tabs, activePages, bs, 0)
                             ELSE Continue(c, [t1 EXCEPT !.pc = "nav", !.page = r.page],
                                           tabs, activePages, bs, 0)
          ELSE Finish(c, t, IF t.detached THEN "cancelled" ELSE "completed", tabs, bs, 0)

\* What recoverPageAfterFailure costs the environment's budget of failures.
RecoverCost(st, rc, b) ==
    IF st = "ok" /\ rc.gotoOk THEN 0
    ELSE IF st = "closed" THEN 0
    ELSE IF ~rc.closeOk THEN 1
    ELSE IF ~rc.createOk /\ isReady(b) THEN 1 ELSE 0

\* The tracked set and the tabs after `n` recoveries replaced the tab h: h is
\* closed and untracked, and of the replacement tabs each was tracked when it
\* was created and untracked again when the next one replaced it.
RECURSIVE Replace(_, _, _, _)
Replace(T, ap, h, n) ==
    IF n = 0 THEN [tabs |-> T, ap |-> ap]
    ELSE LET g == Fresh(T)
         IN Replace([T EXCEPT ![g] = "ok"], (ap \cup {g}) \ {h}, h, n - 1)

\* robustGoto gives up on this attempt: the next attempt, or return false,
\* after which the loop logs, advances the page counter and continues.
NextNavAttempt(t) ==
    IF t.navAttempt < MAX_PAGE_RETRIES
    THEN [t EXCEPT !.navAttempt = @ + 1]
    ELSE [t EXCEPT !.pc = "release", !.pending = "next", !.pageNumber = @ + 1,
                   !.event = "NavigationFailed"]

\* One pass of the for loop of robustGoto.
NavAttempt(c) ==
    LET t == task[c]
        h == t.page
        st == tabs[h]
    IN /\ t.pc = "nav"
       /\ UNCHANGED others
       /\ \E nav \in {"ok", "captchaSolved", "captchaUnsolved", "throw"} :
            IF nav # "throw"
            THEN /\ st = "ok"
                 /\ IF nav = "captchaUnsolved"
                    THEN Continue(c, NextNavAttempt(t), tabs, activePages, bs, 0)
                    ELSE Continue(c, [t EXCEPT !.pc = "classify", !.loc = "search"],
                                  tabs, activePages, bs, 0)
            ELSE \E rc \in RecoverChoices :
                    /\ rc.createOk => isReady(bs)
                    /\ RecoverCost(st, rc, bs) <= faultsLeft
                    /\ LET rec == recoverPageAfterFailure(st, t.loc, rc)
                           T1 == [tabs EXCEPT ![h] = rec.st]
                           rp == Replace(T1, activePages, h, IF rec.replaced THEN 1 ELSE 0)
                           cost == RecoverCost(st, rc, bs)
                       IN IF rec.threw
                          THEN Continue(c, [t EXCEPT !.pc = "release", !.pending = "throw",
                                                     !.event = "RecoveryThrew"],
                                        T1, activePages, bs, cost)
                          ELSE Continue(c, NextNavAttempt([t EXCEPT !.loc = rec.loc]),
                                        rp.tabs, rp.ap, bs, cost)

\* The page class as the loop decides it: the results marker first, then
\* the no-more-results element, then the anti-bot selectors.
PageClass(content) ==
    IF content.spm
    THEN (IF content.noMore THEN "NoMoreResults" ELSE "Results")
    ELSE IF content.captcha THEN "Challenge" ELSE "Unknown"

\* What a tab in state st can show: a dead tab makes isSupplierSearchPage
\* and isCaptchaPage catch and answer false.
Contents(st) ==
    IF st = "ok" THEN [spm : BOOLEAN, noMore : BOOLEAN, captcha : BOOLEAN]
    ELSE {[spm |-> FALSE, noMore |-> FALSE, captcha |-> FALSE]}

\* The card lists the crawl meets on a results page.
CardList(m, blanks) ==
    [i \in 1..m |-> IF i <= blanks THEN Card(<<SPACE>>, NoText, FALSE)
                    ELSE Card(<<SPACE, "A">>, NoText, FALSE)]
PageCardLists == {CardList(0, 0), CardList(1, 0), CardList(1, 1)}

\* What the loop sees of one outcome of extractSuppliersWithRetry: the size
\* of the batch, the tab, and the failures the environment spent on it (a
\* tab that died; a recovery that threw).
CrawlOutcome(o) ==
    [threw |-> o.threw, size |-> Len(o.value), st |-> o.st, loc |-> o.loc,
     replaced |-> o.replaced,
     cost |-> (IF o.lost.any THEN 1 ELSE 0) + (IF o.threw THEN 1 ELSE 0)]

\* The outcomes of the call on a live tab showing the results page.
CrawlOutcomes ==
    [cards \in PageCardLists, canCreate \in BOOLEAN |->
        {CrawlOutcome(o) : o \in ExtractOutcomes(cards, 1, "ok", "search", canCreate)}]

\* The Challenge branch: if (!captchaSolved) pageNumber++
AfterChallengeStays(pageNumber, captchaSolved) == pageNumber
AfterChallenge(pageNumber, captchaSolved) ==
    IF captchaSolved THEN pageNumber ELSE pageNumber + 1

\* How the branches without extraction and without solver leave the loop
\* body: hasMoreResults = false; break
LoopExitOnUnknown(class) == IF class = "Unknown" THEN "break" ELSE "next"
LoopExitOnNoMore(class) == IF class = "NoMoreResults" THEN "break" ELSE "next"
LoopExit(class) == IF class \in {"NoMoreResults", "Unknown"} THEN "break" ELSE "next"

\* The local totalFound of searchSuppliersWithProgress after a page gave n
\* records: totalFound += pageSuppliers.length
TotalFoundLast(totalFound, n) == n
TotalFound(totalFound, n) == totalFound + n

\* The branch of the loop body taken for the loaded page, up to the yield.
\* In a progress run totalFound is the local of the generator, which the
\* event yielded carries, and yieldedSum the sizes of the batches yielded.
Classify(c) ==
    LET t == task[c]
        h == t.page
        st == tabs[h]
    IN /\ t.pc = "classify"
       /\ UNCHANGED others
       /\ \E content \in Contents(st) :
            LET class == PageClass(content)
            IN IF class = "Results"
               THEN \E cards \in PageCardLists :
                      \E o \in CrawlOutcomes[cards, isReady(bs)] :
                        /\ o.cost <= faultsLeft
                        /\ LET T1 == [tabs EXCEPT ![h] = o.st]
                               rp == Replace(T1, activePages, h, o.replaced)
                           IN IF o.threw
                              THEN Continue(c, [t EXCEPT !.pc = "release", !.pending = "throw",
                                                         !.loc = o.loc, !.event = "ExtractionThrew"],
                                            rp.tabs, rp.ap, bs, o.cost)
                              ELSE Continue(c, [t EXCEPT !.pc = IF t.detached THEN "abandoned"
                                                                ELSE "yielded",
                                                         !.response = IF t.detached
                                                                      THEN Response(t, "cancelled")
                                                                      ELSE @,
                                                         !.loc = o.loc,
                                                         !.lastBatch = o.size,
                                                         !.totalFound =
                                                             IF t.mode = "progress"
                                                             THEN TotalFound(@, o.size) ELSE @,
                                                         !.yieldedSum =
                                                             IF t.mode = "progress"
                                                             THEN @ + o.size ELSE @,
                                                         !.lastCards = Len(cards),
                                                         !.lastYield = t.pageNumber,
                                                         !.yields = @ + 1, !.event = "Results"],
                                            rp.tabs, rp.ap, bs, o.cost)
               ELSE IF class = "Challenge"
               THEN \E res \in {"solved", "unsolved", "throw"} :
                      IF res = "throw"
                      THEN /\ faultsLeft > 0
                           /\ \E dead \in DeadStates :
                                Continue(c, [t EXCEPT !.pc = "release", !.pending = "throw",
                                                      !.event = "ChallengeThrew"],
                                         [tabs EXCEPT ![h] = dead], activePages, bs, 1)
                      ELSE Continue(c, [t EXCEPT !.pc = "release", !.pending = "next",
                                                 !.pageNumber = AfterChallenge(@, res = "solved"),
                                                 !.event = IF res = "solved" THEN "ChallengeSolved"
                                                           ELSE "ChallengeExhausted"],
                                    tabs, activePages, bs, 0)
               ELSE \* NoMoreResults and Unknown: hasMoreResults = false; break
                    Continue(c, [t EXCEPT !.pc = "release", !.pending = LoopExit(class),
                                          !.hasMoreResults = LoopExit(class) # "break",
                                          !.event = class],
                             tabs, activePages, bs, 0)

\* The body of the consumer's for await, run on the batch just yielded.
\* searchSuppliers pushes the records; the stream handler first tests the
\* controller and breaks when it is aborted, which calls return() on the
\* generator; otherwise it takes totalFound as its total.  Then the
\* consumer asks for the next batch: the generator resumes after the yield
\* with pageNumber++ and reaches the finally that releases the tab.
Resume(c) ==
    LET t == task[c]
    IN /\ t.pc = "yielded"
       /\ UNCHANGED others
       /\ IF t.mode = "progress" /\ Aborted(task)
          THEN Continue(c, [t EXCEPT !.pc = "release", !.pending = "return"],
                        tabs, activePages, bs, 0)
          ELSE Continue(c, [t EXCEPT !.pc = "release", !.pending = "next",
                                     !.pageNumber = @ + 1,
                                     !.collected = @ + t.lastBatch],
                        tabs, activePages, bs, 0)

\* Where the loop goes after the finally, by what was pending.
AfterRelease(t, pending) ==
    IF pending = "throw" THEN Escaped(t)
    ELSE [t EXCEPT !.pc = "loop", !.page = NoPage, !.pending = "next"]

\* finally { await this.releasePage(page) }
Release(c) ==
    LET t == task[c]
        h == t.page
    IN /\ t.pc = "release"
       /\ UNCHANGED others
       /\ \E closeOk \in BOOLEAN :
            /\ ~closeOk => tabs[h] # "closed" /\ faultsLeft > 0
            /\ IF tabs[h] # "closed" /\ ~closeOk
               THEN \* page.close() throws: the tab stays tracked.  When the
                    \* finally runs for return(), the exception replaces the
                    \* return and the generator goes on while its consumer
                    \* has left the loop.
                    Continue(c, [AfterRelease(t, "throw") EXCEPT
                                    !.detached = @ \/ t.pending = "return"],
                             tabs, activePages, bs, 1)
               ELSE LET T1 == [tabs EXCEPT ![h] = "closed"]
                        ap == activePages \ {h}
                    IN IF t.pending = "break"
                       THEN Finish(c, t, "completed", T1, bs, 0)
                       ELSE IF t.pending = "return"
                       THEN Finish(c, t, "cancelled", T1, bs, 0)
                       ELSE Continue(c, AfterRelease(t, t.pending), T1, ap, bs, 0)

\* const delay = attempt * AlibabaService.BASE_RETRY_DELAY
RetryDelayFlat(attempt) == BASE_RETRY_DELAY
RetryDelay(attempt) == attempt * BASE_RETRY_DELAY

\* The catch of the retry loop of executeSupplierSearchStream: the delay
\* (recorded in the field delay) and reset(), or the throw after the last
\* attempt.
Catch(c) ==
    LET t == task[c]
        b1 == [bs EXCEPT !.initPromise = FALSE]
        waited == [t EXCEPT !.delay = RetryDelay(t.attempt)]
    IN /\ t.pc = "catch"
       /\ UNCHANGED others
       /\ IF t.attempt < MAX_RETRIES
          THEN \E ok \in LaunchOutcomes(b1) :
                 LET r == reset(bs, ok)
                     T == TabsAfter(tabs, r)
                 IN IF r.threw
                    THEN Finish(c, waited, "failed", T, r.bs, LaunchCost(b1, ok))
                    ELSE Continue(c, StartAttempt(waited), T, activePages, r.bs, 0)
          ELSE Finish(c, t, "failed", tabs, bs, 0)

\* The SEARCH_CANCEL handler: abort() on the current controller, if there
\* is one (without one it answers that no search is running and changes
\* nothing).  The field aborted records whether a page was in flight.
Cancel ==
    /\ \E c \in Callers :
         /\ task[c].current /\ task[c].aborted = "no"
         /\ task' = [task EXCEPT ![c].aborted =
                        IF task[c].pc \in {"nav", "classify", "yielded", "release"}
                        THEN "page" ELSE "early"]
    /\ UNCHANGED <<activeSearchTask, activePages, tabs, bs, faultsLeft, others>>

\* The browser process dies: every tab is closed and the 'disconnected'
\* event runs handleBrowserDisconnect.
BrowserDisconnect ==
    LET b1 == [bs EXCEPT !.state = "ERROR", !.connected = FALSE]
        T0 == [h \in DOMAIN tabs |-> IF tabs[h] = "none" THEN "none" ELSE "closed"]
    IN /\ bs.connected
       /\ faultsLeft > 0
       /\ \E c \in Callers : InLoop(task[c])
       /\ \E ok \in BOOLEAN :
            /\ ~ok => Launches(b1) /\ faultsLeft > 1
            /\ LET r == handleBrowserDisconnect(bs, ok)
               IN /\ bs' = r.bs
                  /\ tabs' = Gc(TabsAfter(T0, r), activePages, task)
                  /\ faultsLeft' = faultsLeft - 1 - LaunchCost(b1, ok)
       /\ UNCHANGED <<activeSearchTask, activePages, task, others>>

(***************************************************************************)
(* Part III.  The pooled BrowserService, second class of                   *)
(* browser.service.ts.  Its public methods are asynchronous: an operation  *)
(* in flight is a record of procs, and every await at which other code can *)
(* run is a position of it.                                                *)
(***************************************************************************)
MaxPoolPages == 2
NumClients == 2
PoolFaults == 2

InitProc == 0
Clients == 1..NumClients
IdleProc == NumClients + 1
ProcIds == InitProc..IdleProc
NoPageId == 0

\* browser: the field is not null; connected: browser.isConnected();
\* closing: browser.close() was called on it and has not returned; ctx: the
\* contexts map holds 'default'; ctxAlive: that context can open pages;
\* idle: the timer idleCleanupTimeout refers to ("fired": it has run);
\* stray: pending idle timers no field refers to; faults: the failures the
\* environment may still inject.  nextId, idleRemoved, idleRaced and fires
\* record the history: the page ids handed out, the pages an idle cleanup
\* dropped, an idle teardown that began while createPage was in flight, the
\* parity of the number of timer callbacks run.  hc is the position of the
\* health-check callback ("probe": it awaits checkHealth), ticks the parity
\* of the number of callbacks the interval has run, tick what the last one
\* did.  afterIdle is the first client that called createPage with the state
\* UNINITIALIZED left by an idle cleanup, 0 when none did.  restore is the
\* restorePage in flight: the page it restores and the await it is at.
PoolFresh ==
    [state |-> "UNINITIALIZED", browser |-> FALSE, connected |-> FALSE, closing |-> FALSE,
     ctx |-> FALSE, ctxAlive |-> FALSE, pages |-> {}, pageMeta |-> {},
     activePageId |-> NoPageId, initPromise |-> "null", health |-> FALSE,
     idle |-> "null", stray |-> 0, nextId |-> 1, idleRemoved |-> {},
     idleRaced |-> FALSE, fires |-> 0, faults |-> PoolFaults,
     hc |-> "off", ticks |-> 0, tick |-> "none", afterIdle |-> 0,
     restore |-> [pc |-> "off", id |-> NoPageId, result |-> "none"]]

\* oldIdle and oldHealth of an operation: the idle timer, the health-check
\* interval that was armed when its cleanup() was called is still armed
\* after the head of that cleanup().
ProcOff == [kind |-> "none", pc |-> "off", closing |-> {}, id |-> NoPageId, result |-> "none",
            oldIdle |-> FALSE, oldHealth |-> FALSE]

poolIsReady(p) == p.state = "READY" /\ p.browser /\ p.connected

stopHealthCheck(p) == [p EXCEPT !.health = FALSE]
startHealthCheck(p) == [p EXCEPT !.health = TRUE]
ensureHealthCheck(p) == IF ~p.health /\ p.state = "READY" THEN startHealthCheck(p) ELSE p
cancelIdleCleanup(p) == [p EXCEPT !.idle = "null"]
\* The timer the field referred to, when it is still pending, is referred
\* to by nothing once the field holds the new one.
scheduleIdleCleanup(p) ==
    LET q == cancelIdleCleanup(p)
    IN [q EXCEPT !.stray = @ + (IF q.idle = "pending" THEN 1 ELSE 0),
                 !.idle = "pending"]

\* The guard of the timer callback in scheduleIdleCleanup.
IdleGuardPagesOnly(p) == p.pages = {}
IdleGuard(p) == p.pages = {} /\ p.state = "READY"

\* The synchronous head of cleanup(): stopHealthCheck, cancelIdleCleanup, and
\* closePage called for every page id there is now.
cleanupBeginKeepsTimers(p, pr) ==
    [pool |-> p,
     proc |-> [pr EXCEPT !.pc = "c1", !.closing = p.pages,
                         !.oldIdle = p.idle = "pending", !.oldHealth = p.health]]
cleanupBegin(p, pr) ==
    LET q == cancelIdleCleanup(stopHealthCheck(p))
    IN [pool |-> q,
        proc |-> [pr EXCEPT !.pc = "c1", !.closing = p.pages,
                            !.oldIdle = q.idle = "pending", !.oldHealth = q.health]]

\* The synchronous head of initialize().  started: doInitialize was called
\* and ran to its first await (inside cleanup); wait: the caller awaits a
\* promise that is still pending.
poolInitialize(p) ==
    IF p.state = "READY" THEN [pool |-> p, started |-> FALSE, wait |-> FALSE]
    ELSE IF p.initPromise # "null"
    THEN [pool |-> p, started |-> FALSE, wait |-> p.initPromise = "pending"]
    ELSE [pool |-> [p EXCEPT !.state = "INITIALIZING", !.initPromise = "pending"],
          started |-> TRUE, wait |-> TRUE]

\* procs after initialize() returned r to process i: doInitialize, when it
\* was called, is the process InitProc at the first await of its cleanup.
WithInit(P, r, before) ==
    IF r.started
    THEN [P EXCEPT ![InitProc] = cleanupBegin(before,
                                    [ProcOff EXCEPT !.kind = "init"]).proc]
    ELSE P
PoolAfterInit(r) ==
    IF r.started THEN cancelIdleCleanup(stopHealthCheck(r.pool)) ELSE r.pool

\* handleBrowserDisconnect up to its await.
poolHandleBrowserDisconnect(p) ==
    poolInitialize(stopHealthCheck([p EXCEPT !.state = "ERROR"]))

NoInit(p) == [pool |-> p, started |-> FALSE, wait |-> FALSE]

Done(pr, result) == [ProcOff EXCEPT !.kind = pr.kind, !.result = result, !.id = pr.id]

\* The promise of doInitialize settles: what every operation awaiting it
\* does next.
Wake(P, ok) ==
    [i \in ProcIds |->
        IF P[i].pc # "waitInit" THEN P[i]
        ELSE IF ~ok THEN Done(P[i], "error")
        ELSE IF P[i].kind = "createPage" THEN [P[i] EXCEPT !.pc = "ready"]
        ELSE Done(P[i], "ok")]

\* A client calls createPage, closePage, reset or initialize.
PoolCall(i) ==
    /\ procs[i].pc = "off"
    /\ \E op \in {"createPage", "closePage", "reset", "initialize"} :
         LET pr == [ProcOff EXCEPT !.kind = op]
         IN IF op = "createPage"
            THEN /\ pool.nextId + Cardinality({j \in Clients : procs[j].kind = "createPage"
                                                               /\ procs[j].pc # "off"})
                      <= MaxPoolPages
                 /\ LET r == IF poolIsReady(pool) THEN NoInit(pool) ELSE poolInitialize(pool)
                        me == [pr EXCEPT !.pc = IF r.wait THEN "waitInit" ELSE "ready"]
                        torn == /\ pool.state = "UNINITIALIZED" /\ pool.afterIdle = 0
                                /\ procs[IdleProc].kind = "idle" /\ procs[IdleProc].pc = "off"
                    IN /\ pool' = [PoolAfterInit(r) EXCEPT !.afterIdle = IF torn THEN i ELSE @]
                       /\ procs' = WithInit([procs EXCEPT ![i] = me], r, r.pool)
            ELSE IF op = "closePage"
            THEN \E id \in 1..(pool.nextId - 1) :
                   /\ procs' = [procs EXCEPT ![i] =
                                   IF id \in pool.pages
                                   THEN [pr EXCEPT !.pc = "closeWait", !.id = id]
                                   ELSE Done([pr EXCEPT !.id = id], "ok")]
                   /\ pool' = pool
            ELSE IF op = "reset"
            THEN LET cb == cleanupBegin(pool, pr)
                 IN pool' = cb.pool /\ procs' = [procs EXCEPT ![i] = cb.proc]
            ELSE LET r == poolInitialize(pool)
                     \* "settled": the call returned a promise settled before it
                     me == IF r.wait THEN [pr EXCEPT !.pc = "waitInit"]
                           ELSE Done(pr, IF pool.state = "READY" THEN "ok" ELSE "settled")
                 IN /\ pool' = PoolAfterInit(r)
                    /\ procs' = WithInit([procs EXCEPT ![i] = me], r, r.pool)
    /\ UNCHANGED <<crawlVars, ex>>

\* The end of cleanup() and what its caller does next: the timer callback
\* sets UNINITIALIZED, reset() calls initialize(), terminate() returns,
\* doInitialize goes on to launch the browser.
CleanupEnd(p, P, i) ==
    LET dropped == IF P[i].kind = "idle" THEN p.pages ELSE {}
        p1 == [p EXCEPT !.browser = FALSE, !.connected = FALSE, !.pages = {},
                        !.pageMeta = {}, !.activePageId = NoPageId,
                        !.idleRemoved = @ \cup dropped]
    IN IF P[i].kind = "idle"
       THEN [pool |-> [p1 EXCEPT !.state = "UNINITIALIZED"],
             procs |-> [P EXCEPT ![i] = Done(P[i], "ok")]]
       ELSE IF P[i].kind = "reset"
       THEN LET r == poolInitialize(p1)
                me == IF r.wait THEN [P[i] EXCEPT !.pc = "waitInit"] ELSE Done(P[i], "ok")
            IN [pool |-> PoolAfterInit(r),
                procs |-> WithInit([P EXCEPT ![i] = me], r, r.pool)]
       ELSE IF P[i].kind = "terminate"
       THEN [pool |-> p1, procs |-> [P EXCEPT ![i] = Done(P[i], "ok")]]
       ELSE [pool |-> p1, procs |-> [P EXCEPT ![i].pc = "launch"]]

\* cleanup() after its first, second and third await.
PoolCleanupStep(i) ==
    LET pr == procs[i]
    IN /\ pr.pc \in {"c1", "c2", "c3"}
       /\ UNCHANGED <<crawlVars, ex>>
       /\ IF pr.pc = "c1"
          THEN \* the finally of every closePage; then context.close() is called
               LET p1 == [pool EXCEPT !.pages = @ \ pr.closing,
                                      !.pageMeta = @ \ pr.closing,
                                      !.activePageId = IF @ \in pr.closing THEN NoPageId ELSE @,
                                      !.ctxAlive = FALSE]
               IN /\ pool' = IF pr.closing # {} /\ p1.pages = {}
                             THEN scheduleIdleCleanup(p1) ELSE p1
                  /\ procs' = [procs EXCEPT ![i].pc = "c2"]
          ELSE IF pr.pc = "c2"
          THEN \* contexts.clear(); then browser.close() is called, if there is one
               LET p1 == [pool EXCEPT !.ctx = FALSE]
               IN IF pool.browser
                  THEN /\ pool' = [p1 EXCEPT !.closing = TRUE]
                       /\ procs' = [procs EXCEPT ![i].pc = "c3"]
                  ELSE LET e == CleanupEnd(p1, procs, i)
                       IN pool' = e.pool /\ procs' = e.procs
          ELSE \* browser.close() returns; it emitted 'disconnected' before
               LET emit == pool.closing /\ pool.connected
                   p1 == IF pool.closing
                         THEN [pool EXCEPT !.closing = FALSE, !.connected = FALSE]
                         ELSE pool
                   h == IF emit THEN poolHandleBrowserDisconnect(p1) ELSE NoInit(p1)
                   e == CleanupEnd(PoolAfterInit(h), WithInit(procs, h, h.pool), i)
               IN pool' = e.pool /\ procs' = e.procs

\* doInitialize after cleanup(): launchBrowser, then createBrowserContext,
\* startHealthCheck and state = READY; the catch on any failure.
doInitializeStep ==
    LET pr == procs[InitProc]
        failed == [pool EXCEPT !.state = "ERROR", !.initPromise = "null"]
        off == [procs EXCEPT ![InitProc] = Done(pr, "error")]
    IN /\ pr.pc \in {"launch", "ctx"}
       /\ UNCHANGED <<crawlVars, ex>>
       /\ IF pr.pc = "launch"
          THEN \E ok \in BOOLEAN :
                 IF ok
                 THEN /\ pool' = [pool EXCEPT !.browser = TRUE, !.connected = TRUE,
                                              !.closing = FALSE]
                      /\ procs' = [procs EXCEPT ![InitProc].pc = "ctx"]
                 ELSE /\ pool.faults > 0
                      /\ pool' = [failed EXCEPT !.faults = @ - 1]
                      /\ procs' = Wake(off, FALSE)
          ELSE IF pool.browser /\ pool.connected /\ ~pool.closing
               THEN /\ pool' = [startHealthCheck(pool) EXCEPT !.ctx = TRUE, !.ctxAlive = TRUE,
                                   !.state = "READY", !.initPromise = "fulfilled"]
                    /\ procs' = Wake([procs EXCEPT ![InitProc] = Done(pr, "ok")], TRUE)
               ELSE /\ pool' = failed
                    /\ procs' = Wake(off, FALSE)

\* createPage after ensureReady(): the context, context.newPage(),
\* setupPageOptimizations, then the registration of the page.
PoolCreateStep(i) ==
    LET pr == procs[i]
        usable == pool.browser /\ pool.connected /\ ~pool.closing
    IN /\ pr.kind = "createPage" /\ pr.pc \in {"ready", "ctxWait", "pageWait"}
       /\ UNCHANGED <<crawlVars, ex>>
       /\ IF pr.pc = "ready"
          THEN /\ pool' = pool
               /\ procs' = [procs EXCEPT ![i] =
                              IF ~pool.ctx
                              THEN (IF usable THEN [pr EXCEPT !.pc = "ctxWait"]
                                    ELSE Done(pr, "error"))
                              ELSE IF pool.ctxAlive THEN [pr EXCEPT !.pc = "pageWait"]
                              ELSE Done(pr, "error")]
          ELSE IF pr.pc = "ctxWait"
          THEN /\ pool' = [pool EXCEPT !.ctx = TRUE, !.ctxAlive = usable]
               /\ procs' = [procs EXCEPT ![i] = IF usable THEN [pr EXCEPT !.pc = "pageWait"]
                                                ELSE Done(pr, "error")]
          ELSE LET id == pool.nextId
                   p1 == [pool EXCEPT !.pages = @ \cup {id}, !.pageMeta = @ \cup {id},
                                      !.activePageId = IF @ = NoPageId THEN id ELSE @,
                                      !.nextId = @ + 1]
               IN /\ pool' = cancelIdleCleanup(ensureHealthCheck(p1))
                  /\ procs' = [procs EXCEPT ![i] = Done([pr EXCEPT !.id = id], "ok")]

\* closePage after page.close(): its finally.
PoolCloseStep(i) ==
    LET pr == procs[i]
        p1 == [pool EXCEPT !.pages = @ \ {pr.id}, !.pageMeta = @ \ {pr.id},
                           !.activePageId = IF @ = pr.id THEN NoPageId ELSE @]
    IN /\ pr.pc = "closeWait"
       /\ pool' = IF p1.pages = {} THEN scheduleIdleCleanup(p1) ELSE p1
       /\ procs' = [procs EXCEPT ![i] = Done(pr, "ok")]
       /\ UNCHANGED <<crawlVars, ex>>

\* An idle timer runs its callback.
PoolIdleFire ==
    /\ procs[IdleProc].pc = "off"
    /\ \E timer \in {"field", "stray"} :
         /\ IF timer = "field" THEN pool.idle = "pending" ELSE pool.stray > 0
         /\ LET p1 == [pool EXCEPT !.idle = IF timer = "field" THEN "fired" ELSE @,
                                    !.stray = IF timer = "stray" THEN @ - 1 ELSE @,
                                    !.fires = 1 - @]
                raced == \E j \in Clients : procs[j].kind = "createPage" /\ procs[j].pc # "off"
                cb == cleanupBegin([p1 EXCEPT !.idleRaced = @ \/ raced],
                                   [ProcOff EXCEPT !.kind = "idle"])
            IN IF IdleGuard(p1)
               THEN pool' = cb.pool /\ procs' = [procs EXCEPT ![IdleProc] = cb.proc]
               ELSE pool' = p1 /\ procs' = procs
    /\ UNCHANGED <<crawlVars, ex>>

\* The browser process dies: 'disconnected' is emitted.
PoolCrash ==
    /\ pool.browser /\ pool.connected /\ pool.faults > 0
    /\ LET p1 == [pool EXCEPT !.connected = FALSE, !.ctxAlive = FALSE, !.faults = @ - 1]
           h == poolHandleBrowserDisconnect(p1)
       IN /\ pool' = PoolAfterInit(h)
          /\ procs' = WithInit(procs, h, h.pool)
    /\ UNCHANGED <<crawlVars, ex>>

\* The test at the head of the interval callback of startHealthCheck.
HealthGuardNone(p) == TRUE
HealthGuard(p) == p.pages # {}

\* What the callback does with the answer of checkHealth: initialize() when
\* the browser is unhealthy and the state READY.
AfterProbe(p, P, isHealthy) ==
    IF ~isHealthy /\ p.state = "READY"
    THEN LET r == poolInitialize(p)
         IN [pool |-> [PoolAfterInit(r) EXCEPT !.hc = "off", !.tick = "reinit"],
             procs |-> WithInit(P, r, r.pool)]
    ELSE [pool |-> [p EXCEPT !.hc = "off",
                             !.tick = IF isHealthy THEN "healthy" ELSE "unhealthy"],
          procs |-> P]

\* The interval of startHealthCheck runs its callback, up to the first await
\* at which other code can run: the newPage() of checkHealth.  One callback
\* is in flight at a time.
PoolHealthTick ==
    /\ pool.health /\ pool.hc = "off"
    /\ LET p1 == [pool EXCEPT !.ticks = 1 - @]
       IN IF ~HealthGuard(p1)
          THEN pool' = [p1 EXCEPT !.tick = "skipped"] /\ procs' = procs
          ELSE IF ~(p1.browser /\ p1.connected) \/ ~p1.ctx
          THEN LET a == AfterProbe(p1, procs, FALSE)
               IN pool' = a.pool /\ procs' = a.procs
          ELSE pool' = [p1 EXCEPT !.hc = "probe", !.tick = "probing"] /\ procs' = procs
    /\ UNCHANGED <<crawlVars, ex>>

\* checkHealth returns: the test page opened, evaluated and closed, or one
\* of the three threw and the catch answered false.
PoolHealthStep ==
    /\ pool.hc = "probe"
    /\ \E ok \in BOOLEAN :
         /\ ok => pool.browser /\ pool.connected /\ ~pool.closing /\ pool.ctxAlive
         /\ LET a == AfterProbe(pool, procs, ok)
            IN pool' = a.pool /\ procs' = a.procs
    /\ UNCHANGED <<crawlVars, ex>>

PoolOff == pool = PoolFresh /\ procs = [i \in ProcIds |-> ProcOff]

CrawlInit(callers, caps, budget) ==
    /\ activeSearchTask = FALSE
    /\ activePages = {}
    /\ tabs = [h \in {MainPage} \cup Handles |-> "none"]
    /\ bs = BsFresh
    /\ faultsLeft = budget
    /\ task \in [Callers -> {NewTask(m, n, "idle") : m \in Modes, n \in caps}
                             \cup {NewTask("stream", 0, "off")}]
    /\ \A c \in Callers : task[c].pc = "idle" <=> c \in callers

CrawlNext ==
    \/ \E c \in Callers : Call(c)
    \/ \E c \in Callers : LoopHead(c)
    \/ \E c \in Callers : NavAttempt(c)
    \/ \E c \in Callers : Classify(c)
    \/ \E c \in Callers : Resume(c)
    \/ \E c \in Callers : Release(c)
    \/ \E c \in Callers : Catch(c)
    \/ BrowserDisconnect

ExIdle == [pc |-> "off"]

vars == <<activeSearchTask, activePages, tabs, bs, task, faultsLeft, ex, pool, procs>>

\* One caller, any mode, any cap (0: no cap).
Init == CrawlInit({1}, 0..MaxCap, MaxFaults) /\ ex = ExIdle /\ PoolOff
Spec == Init /\ [][CrawlNext]_vars

\* Two callers on the same AlibabaService instance.
BusyFaults == 1
InitBusy == CrawlInit(Callers, {1}, BusyFaults) /\ ex = ExIdle /\ PoolOff
SpecBusy == InitBusy /\ [][CrawlNext]_vars

\* One caller with a finite cap; every step of the generator that can be
\* taken is taken in the end (every browser operation returns, the consumer
\* keeps asking for the next batch).
GeneratorStep ==
    \E c \in Callers : \/ Call(c) \/ LoopHead(c) \/ NavAttempt(c) \/ Classify(c)
                       \/ Resume(c) \/ Release(c) \/ Catch(c)
FairFaults == 1
InitFair == CrawlInit({1}, 1..MaxCap, FairFaults) /\ ex = ExIdle /\ PoolOff
FairSpec == InitFair /\ [][CrawlNext]_vars /\ WF_vars(GeneratorStep)

\* The stream handler with its cancel request: one SEARCH_SUPPLIERS_STREAM
\* call, and SEARCH_CANCEL at any moment.  The steps are those of
\* searchSuppliersWithProgress, which has no retry loop and so no Catch.
CancelFaults == 1
InitCancel ==
    /\ CrawlInit({1}, 0..MaxCap, CancelFaults) /\ ex = ExIdle /\ PoolOff
    /\ task[1].mode = "progress"
CancelNext ==
    \/ \E c \in Callers : Call(c)
    \/ \E c \in Callers : LoopHead(c)
    \/ \E c \in Callers : NavAttempt(c)
    \/ \E c \in Callers : Classify(c)
    \/ \E c \in Callers : Resume(c)
    \/ \E c \in Callers : Release(c)
    \/ BrowserDisconnect
    \/ Cancel
SpecCancel == InitCancel /\ [][CancelNext]_vars

(***************************************************************************)
(* C1.  Single-flight: in no reachable state are two page loops active on  *)
(* the same AlibabaService instance (a second search issued while one runs *)
(* is rejected as busy and starts no page loop).                           *)
(***************************************************************************)
C1_SingleFlight ==
    \A c, d \in Callers : c # d => ~(InLoop(task[c]) /\ InLoop(task[d]))

\* Two page loops are active at once.
C1_TwoLoops ==
    \E c, d \in Callers : c # d /\ task[c].pc = "nav" /\ task[d].pc = "nav"

(***************************************************************************)
(* C2.  Pagination cap: with a cap N >= 1 a searchSuppliersStream run      *)
(* yields at most N batches in total, counting every yield of the run, and *)
(* never requests a page number greater than N.                            *)
(***************************************************************************)
C2_PaginationCap ==
    \A c \in Callers :
        (task[c].mode = "stream" /\ task[c].maxPages >= 1) =>
            /\ task[c].yields <= task[c].maxPages
            /\ (task[c].pc \in {"nav", "classify", "yielded"} =>
                   task[c].pageNumber <= task[c].maxPages)

\* A run with cap N has yielded more than N batches.
C2_MoreThanCap ==
    \E c \in Callers : /\ task[c].mode = "stream" /\ task[c].maxPages >= 1
                       /\ task[c].yields > task[c].maxPages

(***************************************************************************)
(* C3.  Termination: with a finite cap every run of the page loop reaches  *)
(* a terminal state in the end, whatever the pages classify as.            *)
(***************************************************************************)
C3_Terminates == <>(task[1].pc = "done")

\* The solver reports success on a page that classified as Challenge: the
\* loop goes on with the same page number.
C3_SamePageAgain ==
    /\ task[1].pc = "release" /\ task[1].pending = "next"
    /\ task[1].navAttempt < MAX_PAGE_RETRIES
    /\ task[1].pageNumber = 1 /\ task[1].yields = 0 /\ task[1].attempt = 1

(***************************************************************************)
(* C4.  Batch ordering: within one searchSuppliersStream run the page      *)
(* numbers of successively yielded batches are strictly increasing, also   *)
(* when the top-level retry starts another attempt.                        *)
(***************************************************************************)
C4_BatchOrder ==
    [][\A c \in Callers :
          (task[c].mode = "stream" /\ task[c].yields > 0
             /\ task'[c].yields = task[c].yields + 1)
          => task'[c].lastYield > task[c].lastYield]_vars

\* A second attempt has yielded the batch of a page yielded before.
C4_YieldedAgain ==
    \E c \in Callers : /\ task[c].mode = "stream" /\ task[c].pc = "yielded"
                       /\ task[c].attempt = 2 /\ task[c].yields = 2
                       /\ task[c].lastYield = 1

(***************************************************************************)
(* C10.  Empty results page: when page p classifies as Results and holds   *)
(* no card, the batch is empty and the crawl stops; no page after p is     *)
(* requested.                                                              *)
(***************************************************************************)
C10_EmptyPageStops ==
    \A c \in Callers :
        (task[c].lastCards = 0 /\ task[c].lastBatch = 0
           /\ task[c].pc \in {"nav", "classify"})
        => task[c].pageNumber <= task[c].lastYield

\* The page after an empty results page is being requested.
C10_NextPageRequested ==
    \E c \in Callers : /\ task[c].lastCards = 0 /\ task[c].pc = "nav"
                       /\ task[c].pageNumber = task[c].lastYield + 1

(***************************************************************************)
(* The extraction step alone: one call of extractSuppliersWithRetry on a   *)
(* live tab that shows a results page with the cards ex.cards.             *)
(***************************************************************************)
RECURSIVE CardLists(_)
CardLists(n) ==
    IF n = 0 THEN {<< >>}
    ELSE CardLists(n - 1)
         \cup {Append(l, k) : l \in {x \in CardLists(n - 1) : Len(x) = n - 1}, k \in CardKinds}

ExtractPages == 1..2

ExtractCall ==
    /\ ex.pc = "ready"
    /\ \E o \in ExtractOutcomes(ex.cards, ex.pageNumber, "ok", "search", TRUE) :
         ex' = [pc |-> "done", cards |-> ex.cards, pageNumber |-> ex.pageNumber,
                result |-> o]
    /\ UNCHANGED <<crawlVars, pool, procs>>

InitExtract ==
    /\ CrawlInit({}, {0}, 0)
    /\ PoolOff
    /\ ex \in {[pc |-> "ready", cards |-> l, pageNumber |-> n] :
                  l \in CardLists(MaxCards), n \in ExtractPages}
SpecExtract == InitExtract /\ [][ExtractCall]_vars

(***************************************************************************)
(* C5.  Partial-result guarantee: if the extraction of a page throws after *)
(* k of its cards were parsed into records, the batch handed to the caller *)
(* holds exactly those k records, and no exception leaves the extraction   *)
(* step.                                                                   *)
(***************************************************************************)
C5_PartialResult ==
    (ex.pc = "done" /\ ex.result.lost.any)
    => (~ex.result.threw /\ ex.result.value = ex.result.lost.records)

\* Extraction threw after the first batch of cards had given records, and
\* the caller got an empty batch.
C5_RecordsLost ==
    /\ ex.pc = "done" /\ ex.result.lost.any
    /\ Len(ex.result.lost.records) = batchSize
    /\ ~ex.result.threw /\ ex.result.value = << >>

(***************************************************************************)
(* The pooled BrowserService with its clients, timers and browser.         *)
(***************************************************************************)
InitPool == CrawlInit({}, {0}, 0) /\ ex = ExIdle /\ PoolOff
PoolNext ==
    \/ \E i \in Clients : PoolCall(i)
    \/ \E i \in ProcIds : PoolCleanupStep(i)
    \/ doInitializeStep
    \/ \E i \in Clients : PoolCreateStep(i)
    \/ \E i \in Clients : PoolCloseStep(i)
    \/ PoolIdleFire
    \/ PoolCrash
SpecPool == InitPool /\ [][PoolNext]_vars

(***************************************************************************)
(* C6.  Idle-cleanup cancellation: when createPage is invoked before the   *)
(* idle timer fires, that timer does not tear the browser down, in every   *)
(* interleaving of the callback with the steps of createPage; and no page  *)
(* handed out by createPage is removed or closed by an idle cleanup.       *)
(***************************************************************************)
C6_IdleSparesNewPage == ~pool.idleRaced /\ pool.idleRemoved = {}

\* An idle cleanup dropped a page that createPage had handed out.
C6_PageDropped == pool.idleRemoved # {} /\ pool.state = "UNINITIALIZED"

(***************************************************************************)
(* C7.  Idle-cleanup teardown: when closePage removes the last page of a   *)
(* READY service one idle timer is pending and no other; a callback that   *)
(* finds the service READY with no page closes the contexts and the        *)
(* browser and ends with the state UNINITIALIZED; a callback that finds a  *)
(* page, or a state other than READY, changes nothing.                     *)
(***************************************************************************)
C7_IdleTeardown ==
    [][/\ pool'.stray = 0
       /\ \A i \in Clients :
            (/\ procs[i].pc = "closeWait" /\ procs'[i].pc = "off"
             /\ pool.state = "READY" /\ pool.pages = {procs[i].id})
            => (pool'.pages = {} /\ pool'.idle = "pending")
       /\ (procs[IdleProc].pc \in {"c2", "c3"} /\ procs'[IdleProc].pc = "off")
            => (/\ pool'.state = "UNINITIALIZED"
                /\ ~pool'.browser /\ ~pool'.connected /\ ~pool'.ctxAlive
                /\ pool'.pages = {} /\ pool'.pageMeta = {})
       /\ (pool'.fires # pool.fires /\ (pool.pages # {} \/ pool.state # "READY"))
            => (/\ procs' = procs
                /\ [pool' EXCEPT !.idle = pool.idle, !.stray = pool.stray,
                                 !.fires = pool.fires] = pool)]_vars

\* The callback of the idle timer has torn the browser down.
C7_TornDown ==
    /\ procs[IdleProc].kind = "idle" /\ procs[IdleProc].pc = "off"
    /\ procs[IdleProc].result = "ok"
    /\ pool.state = "UNINITIALIZED" /\ ~pool.browser /\ pool.idle = "null"
    /\ pool.nextId > 1

(***************************************************************************)
(* C8.  reset(): whatever the state before the call, when reset()          *)
(* completes without an error a freshly launched browser is in place: the  *)
(* state is READY, isReady() is true and the page bookkeeping is empty.    *)
(***************************************************************************)
C8_ResetGivesFreshBrowser ==
    [][\A i \in Clients :
          (/\ procs[i].kind = "reset" /\ procs[i].pc # "off"
           /\ procs'[i].pc = "off" /\ procs'[i].result = "ok")
          => (/\ pool'.state = "READY" /\ poolIsReady(pool')
              /\ pool'.pages = {} /\ pool'.pageMeta = {}
              /\ pool'.activePageId = NoPageId)]_vars

\* reset() has returned without an error and there is no browser.
C8_ResetLeftNoBrowser ==
    \E i \in Clients : /\ procs[i].kind = "reset" /\ procs[i].pc = "off"
                       /\ procs[i].result = "ok"
                       /\ pool.state = "ERROR" /\ ~pool.browser
                       /\ pool.initPromise = "fulfilled"

(***************************************************************************)
(* C9.  Disconnect recovery: when 'disconnected' fires on a READY service  *)
(* that was initialized before, the service performs one automatic         *)
(* re-initialization, which launches a new browser and discards the page   *)
(* bookkeeping of the lost one.                                            *)
(***************************************************************************)
C9_DisconnectRelaunches ==
    [][(/\ pool.state = "READY" /\ pool.connected /\ ~pool.closing
        /\ ~pool'.connected /\ pool'.faults < pool.faults)
       => (procs'[InitProc].kind = "init" /\ procs'[InitProc].pc # "off")]_vars

\* The browser is lost; the service is in ERROR, launches nothing and still
\* lists the pages of the lost browser.
C9_NoRelaunch ==
    /\ pool.state = "ERROR" /\ pool.browser /\ ~pool.connected
    /\ pool.initPromise = "fulfilled" /\ procs[InitProc].pc = "off"
    /\ pool.pages # {}

C14_NavigationFailureSkips ==
    [][\A c \in Callers :
          (task[c].pc = "nav" /\ task'[c] # task[c] /\ task'[c].pc # "classify")
          => (/\ task'[c].yields = task[c].yields
              /\ task'[c].attempt = task[c].attempt
              /\ \/ task'[c].pc = "nav" /\ task'[c].pageNumber = task[c].pageNumber
                 \/ /\ task'[c].pc = "release" /\ task'[c].pending = "next"
                    /\ task'[c].pageNumber = task[c].pageNumber + 1)]_vars

\* A navigation failed, its recovery threw, and the exception has reached
\* the catch of the retry loop in every attempt: the run has failed.
C14_NavigationFailedRun ==
    \E c \in Callers : /\ task[c].pc = "done" /\ task[c].outcome = "failed"
                       /\ task[c].mode = "stream" /\ task[c].event = "RecoveryThrew"
                       /\ task[c].attempt = MAX_RETRIES

(***************************************************************************)
(* C15.  Top-level retry: executeSupplierSearchStream runs the page loop   *)
(* at most MAX_RETRIES times; another attempt starts only from the catch   *)
(* of the retry loop, after a delay of attempt x 3000 ms, longer than the  *)
(* delay before, and after reset() of the browser service; the catch of    *)
(* the last attempt waits no more and throws: the run has failed.          *)
(***************************************************************************)
C15_TopLevelRetry ==
    [][\A c \in Callers :
          task[c].mode = "stream" =>
            /\ task'[c].attempt <= MAX_RETRIES
            /\ (task[c].attempt >= 1 /\ task'[c].attempt # task[c].attempt)
               => (/\ task[c].pc = "catch" /\ task'[c].pc = "loop"
                   /\ task'[c].attempt = task[c].attempt + 1
                   /\ task'[c].pageNumber = 1
                   /\ task'[c].delay = task[c].attempt * 3000
                   /\ task'[c].delay > task[c].delay
                   /\ \E ok \in BOOLEAN : bs' = reset(bs, ok).bs /\ ~reset(bs, ok).threw)
            /\ (task[c].pc = "catch" /\ task[c].attempt = MAX_RETRIES
                  /\ task'[c] # task[c])
               => (/\ task'[c].pc = "done" /\ task'[c].outcome = "failed"
                   /\ task'[c].delay = task[c].delay)]_vars

\* Three attempts have failed: 3000 ms were waited after the first, 6000 ms
\* after the second, and the run has failed after the third.
C15_FailedAfterThree ==
    \E c \in Callers : /\ task[c].mode = "stream" /\ task[c].pc = "done"
                       /\ task[c].outcome = "failed" /\ task[c].attempt = MAX_RETRIES
                       /\ task[c].delay = 6000

(***************************************************************************)
(* C16.  Records survive failure: when a run of searchSuppliers fails      *)
(* after batches were handed over, the answer of the SEARCH_SUPPLIERS      *)
(* handler signals the error and still carries the records of those        *)
(* batches; a failed run is never answered as a success.                   *)
(***************************************************************************)
C16_RecordsSurviveFailure ==
    \A c \in Callers :
        (task[c].mode = "stream" /\ task[c].pc = "done" /\ task[c].outcome = "failed")
        => (/\ task[c].response.sent /\ ~task[c].response.success
            /\ task[c].collected > 0 => task[c].response.data = <<task[c].collected>>)

\* The run failed after searchSuppliers had collected a record, and the
\* answer is an error without records.
C16_RecordsDropped ==
    \E c \in Callers : /\ task[c].mode = "stream" /\ task[c].pc = "done"
                       /\ task[c].outcome = "failed" /\ task[c].collected > 0
                       /\ task[c].response = [sent |-> TRUE, success |-> FALSE,
                                               data |-> << >>]

(***************************************************************************)
(* C17.  Cancellation: once SEARCH_CANCEL has aborted the controller of a  *)
(* stream search while a page was in flight, that page may end as it ends, *)
(* in a batch, a skip or an error, but when the generator is back at the   *)
(* head of its loop no further page is started: the search ends.           *)
(***************************************************************************)
C17_CancelStopsPaging ==
    [][\A c \in Callers :
          (/\ task[c].mode = "progress" /\ task[c].aborted = "page"
           /\ task[c].pc = "loop" /\ task'[c] # task[c])
          => task'[c].pc = "done"]_vars

\* The page in flight at the cancel request ended in a skip, and the next
\* page has been started.
C17_NextPageStarted ==
    \E c \in Callers : /\ task[c].mode = "progress" /\ task[c].aborted = "page"
                       /\ task[c].overrun /\ task[c].pc = "nav"
                       /\ task[c].pageNumber = 2 /\ task[c].yields = 0
                       /\ ~task[c].detached

(***************************************************************************)
(* C18.  Resource exhaustion: with MAX_CONCURRENT_PAGES tabs tracked the   *)
(* acquisition of a tab fails, so that no page is started then; the tab    *)
(* handed out is never the page the browser service keeps as its own nor a *)
(* tab another run holds; and releasing a tab closes no such page.         *)
(***************************************************************************)
C18_AcquireRespectsCap ==
    [][\A c \in Callers :
          /\ (task[c].pc = "loop" /\ task'[c].pc = "nav")
             => (/\ Cardinality(activePages) < MAX_CONCURRENT_PAGES
                 /\ task'[c].page # MainPage
                 /\ \A d \in Callers \ {c} : task'[c].page # task[d].page)
          /\ (task[c].pc = "release" /\ task'[c] # task[c])
             => (/\ tabs[MainPage] = "ok" => tabs'[MainPage] = "ok"
                 /\ \A d \in Callers \ {c} :
                       (task[d].page # NoPage /\ tabs[task[d].page] = "ok")
                       => tabs'[task[d].page] = "ok")]_vars

\* With five tabs tracked the run was handed the page of the browser
\* service, and its release has closed it under a READY service.
C18_SharedPageClosed ==
    \E c \in Callers : /\ Cardinality(activePages) = MAX_CONCURRENT_PAGES
                       /\ task[c].pc = "loop" /\ task[c].page = NoPage
                       /\ tabs[MainPage] = "closed" /\ isReady(bs)

(***************************************************************************)
(* C19.  Name gating: every record of every batch the extraction returns   *)
(* has a name that is not empty (and was trimmed); a card whose title link *)
(* gives no text, only white space, or throws gives no record, so a batch  *)
(* has at most one record per named card; every field of a record other    *)
(* than id, name and URL is the empty string, and so is the URL of a card  *)
(* without href.                                                           *)
(***************************************************************************)
Named(card) == ~card.fails /\ card.text # NoText /\ \E i \in 1..Len(card.text) : card.text[i] # SPACE

C19_NameGating ==
    (ex.pc = "done" /\ ~ex.result.threw) =>
        LET value == ex.result.value
        IN /\ \A i \in 1..Len(value) :
                /\ value[i].englishName # << >>
                /\ Head(value[i].englishName) # SPACE
                /\ value[i].englishName[Len(value[i].englishName)] # SPACE
                /\ \E k \in 1..Len(ex.cards) :
                      /\ Named(ex.cards[k])
                      /\ value[i].id = (ex.pageNumber - 1) * RecordsPerPage + k
                      /\ value[i] = SupplierInfo(value[i].id, Trim(ex.cards[k].text), << >>)
           /\ Len(value) <= Cardinality({k \in 1..Len(ex.cards) : Named(ex.cards[k])})

\* A page of six cards of which one has no text, one only white space and
\* one throws: the batch holds the records of the three others.
C19_UnnamedDropped ==
    /\ ex.pc = "done" /\ ~ex.result.threw /\ Len(ex.cards) = MaxCards
    /\ Len(ex.result.value) = 3
    /\ \E i, j, k \in 1..MaxCards :
         /\ ex.cards[i] = Card(NoText, NoText, FALSE)
         /\ ex.cards[j] = Card(<<SPACE>>, NoText, FALSE)
         /\ ex.cards[k].fails

(***************************************************************************)
(* The pooled BrowserService with the interval of its health check.        *)
(***************************************************************************)
HealthFaults == 1
InitHealth ==
    /\ CrawlInit({}, {0}, 0) /\ ex = ExIdle
    /\ pool = [PoolFresh EXCEPT !.faults = HealthFaults]
    /\ procs = [i \in ProcIds |-> ProcOff]
SpecHealth == InitHealth /\ [][PoolNext \/ PoolHealthTick \/ PoolHealthStep]_vars

(***************************************************************************)
(* C21.  Health check only with pages: a callback of the health-check      *)
(* interval that finds no page tracked runs no probe and triggers no       *)
(* initialization, it changes nothing; a probe begins, and an              *)
(* initialization is asked for, only by a callback that found a page.      *)
(***************************************************************************)
C21_HealthOnlyWithPages ==
    [][/\ (pool'.ticks # pool.ticks /\ pool.pages = {}) =>
            /\ pool' = [pool EXCEPT !.ticks = 1 - @, !.tick = "skipped"]
            /\ procs' = procs
       /\ (pool'.hc = "probe" /\ pool.hc = "off") =>
            pool'.ticks # pool.ticks /\ pool.pages # {}
       /\ (pool'.tick \in {"healthy", "unhealthy", "reinit"} /\ pool.tick # pool'.tick) =>
            \/ pool.hc = "probe"
            \/ pool'.ticks # pool.ticks /\ pool.pages # {}]_vars

\* The interval ran while the browser was ready and no page was tracked,
\* with an idle cleanup pending: the callback was skipped.
C21_TickSkipped ==
    /\ pool.tick = "skipped" /\ pool.health /\ pool.pages = {}
    /\ pool.state = "READY" /\ pool.idle = "pending" /\ pool.nextId > 1

(***************************************************************************)
(* normalizeUrl alone: the href of a title link, as a string of at most    *)
(* MaxPrefixLen + MaxTailLen characters made of a head (nothing, a slash,  *)
(* two slashes, a scheme in either case, a part of a scheme, white space,  *)
(* a host) and a rest; processSupplierCard trims it and normalizes it.     *)
(***************************************************************************)
MaxPrefixLen == 8
MaxTailLen == 8
UrlPrefixes ==
    {p \in {<< >>, <<"/">>, <<"/", "/">>, <<"/", "/", "/">>,
            <<"h", "t", "t", "p", ":", "/", "/">>,
            <<"h", "t", "t", "p", "s", ":", "/", "/">>,
            <<"H", "T", "T", "P", ":", "/", "/">>,
            <<"H", "t", "t", "p", "S", ":", "/", "/">>,
            <<"h", "t", "t", "p", ":", "/">>,
            <<"h", "t", "t", "p", "s", ":">>,
            <<"h", "t", "t", "p", "s">>,
            <<"f", "t", "p", ":", "/", "/">>,
            <<SPACE>>, <<SPACE, "/">>, <<"a">>} : Len(p) <= MaxPrefixLen}
UrlTails ==
    {t \in {<< >>, <<"a">>, <<"/", "a">>, <<"/", "/", "a">>, <<"a", "/">>,
            <<":", "/", "/", "a">>, <<SPACE>>,
            <<"h", "t", "t", "p", ":", "/", "/", "a">>} : Len(t) <= MaxTailLen}
UrlInputs == {p \o t : p \in UrlPrefixes, t \in UrlTails}

NormalizeCall ==
    /\ ex.pc = "url"
    /\ ex' = [pc |-> "normalized", url |-> ex.url, out |-> normalizeUrl(ex.url),
              record |-> processSupplierCard(Card(<<"A">>, ex.url, FALSE), 1)]
    /\ UNCHANGED <<crawlVars, pool, procs>>

InitUrl ==
    /\ CrawlInit({}, {0}, 0)
    /\ PoolOff
    /\ ex \in {[pc |-> "url", url |-> u] : u \in UrlInputs}
SpecUrl == InitUrl /\ [][NormalizeCall]_vars

(***************************************************************************)
(* C20.  normalizeUrl is idempotent: for every string u, normalizing the   *)
(* result of normalizeUrl(u) again gives that result; so the URL of a      *)
(* record is a fixed point of normalizeUrl.                                *)
(***************************************************************************)
C20_NormalizeIdempotent ==
    ex.pc = "normalized" =>
        /\ normalizeUrl(ex.out) = ex.out
        /\ \A i \in 1..Len(ex.record) :
              normalizeUrl(ex.record[i].albabaURL) = ex.record[i].albabaURL

\* A root-relative href was given the origin of the site, and a second
\* normalization has nothing to add.
C20_RootRelativeDone ==
    /\ ex.pc = "normalized" /\ ex.url = <<"/", "a">>
    /\ ex.out = SiteOrigin \o <<"/", "a">>
    /\ normalizeUrl(ex.out) = ex.out /\ ex.out # ex.url

(***************************************************************************)
(* Part IV.  navigateToUrl of both BrowserService classes, one call at a   *)
(* time.  Page objects are handles; closed is the set of those for which   *)
(* isClosed() answers true.  The pooled class keeps the page of pageId in  *)
(* its pages map (mapped, NoHandle when the map has no entry) and its      *)
(* metadata (meta); the single-page class has its fields (b) and its       *)
(* activePage (mapped).  gotos, waits and cause record the history: every  *)
(* page.goto with the page it was called on, every sleep between attempts, *)
(* the attempt whose error the thrown error carries.                       *)
(***************************************************************************)
MaxNavRetries == 3
retryDelay == 2000
NoHandle == 0
BsReady == doInitialize(BsFresh, TRUE).bs

NavRetryDelayFlat(attempt) == retryDelay
NavRetryDelay(attempt) == retryDelay * attempt

NavStart(version, retries, b) ==
    [pc |-> "navStart", version |-> version, retries |-> retries, attempt |-> 0,
     page |-> NoHandle, mapped |-> IF version = "pooled" \/ b.state = "READY" THEN 1 ELSE NoHandle,
     meta |-> version = "pooled", ctx |-> TRUE, closed |-> {}, nextHandle |-> 2,
     gotos |-> << >>, waits |-> << >>, lastError |-> 0, result |-> "none", cause |-> 0,
     b |-> b]

\* The head of the for loop, and the throw after it.
NavLoop(e) ==
    IF e.attempt <= e.retries THEN [e EXCEPT !.pc = "goto"]
    ELSE [e EXCEPT !.pc = "navDone", !.result = "NAVIGATION_FAILED", !.cause = e.lastError]

\* The catch of an attempt up to its sleep.
NavCatch(e) ==
    LET e1 == [e EXCEPT !.lastError = e.attempt]
    IN IF e.attempt < e.retries
       THEN [e1 EXCEPT !.waits = Append(@, NavRetryDelay(e.attempt)), !.pc = "navSleep"]
       ELSE NavLoop([e1 EXCEPT !.attempt = @ + 1])

\* page.goto on the page h: it returns, or it throws, and the page may have
\* been closed meanwhile; on a closed page it throws.
NavGotoOn(e, h, ok, closes) ==
    LET e1 == [e EXCEPT !.gotos = Append(@, [target |-> h, mapped |-> e.mapped, ok |-> ok]),
                        !.closed = IF closes THEN @ \cup {h} ELSE @]
    IN IF ok THEN [e1 EXCEPT !.pc = "navDone", !.result = "returned"]
       ELSE NavCatch(e1)

\* restorePage with the page of pageId closed: nothing without metadata;
\* else the entry is deleted and a new page registered under the same id,
\* or the metadata deleted when no page could be opened.
restorePage(e, ok) ==
    IF ~e.meta THEN e
    ELSE IF ok THEN [e EXCEPT !.mapped = e.nextHandle, !.nextHandle = @ + 1]
    ELSE [e EXCEPT !.mapped = NoHandle, !.meta = FALSE]

\* The page the pooled loop calls goto on: the one getPage answered before
\* the loop.
NavTarget(e) == e.page

\* navigateToUrl is called: the pooled version reads the page of pageId.
NavBegin ==
    /\ ex.pc = "navStart"
    /\ ex' = NavLoop([ex EXCEPT !.attempt = 1,
                                !.page = IF ex.version = "pooled" THEN ex.mapped ELSE NoHandle])
    /\ UNCHANGED <<crawlVars, pool, procs>>

\* The try block of one attempt.
NavGoto ==
    /\ ex.pc = "goto"
    /\ UNCHANGED <<crawlVars, pool, procs>>
    /\ IF ex.version = "pooled"
       THEN \E ok, closes \in BOOLEAN :
              /\ ok => NavTarget(ex) \notin ex.closed /\ ~closes
              /\ ex' = NavGotoOn(ex, NavTarget(ex), ok, closes)
       ELSE \* ensureReady(), getActivePage(), page.goto
            \E okInit, ok, closes \in BOOLEAN :
              LET r == IF isReady(ex.b) THEN Untouched(ex.b) ELSE initialize(ex.b, okInit)
                  e1 == [ex EXCEPT !.b = r.bs,
                                   !.mapped = IF r.main = "same" THEN @
                                              ELSE IF r.main = "ok" THEN ex.nextHandle
                                              ELSE NoHandle,
                                   !.nextHandle = IF r.main = "ok" THEN @ + 1 ELSE @,
                                   !.closed = IF r.closed /\ ex.mapped # NoHandle
                                              THEN @ \cup {ex.mapped} ELSE @]
              IN /\ (isReady(ex.b) \/ initialize(ex.b, TRUE) = Untouched(ex.b)) => okInit
                 /\ IF r.threw \/ e1.mapped = NoHandle
                    THEN ok /\ ~closes /\ ex' = NavCatch(e1)
                    ELSE /\ ok => e1.mapped \notin e1.closed /\ ~closes
                         /\ ex' = NavGotoOn(e1, e1.mapped, ok, closes)

\* The sleep between two attempts ends: the pooled version restores a page
\* found closed, the single-page version initializes an unhealthy browser.
NavSleepEnd ==
    /\ ex.pc = "navSleep"
    /\ UNCHANGED <<crawlVars, pool, procs>>
    /\ IF ex.version = "pooled"
       THEN \E ok \in BOOLEAN :
              /\ ok => ex.ctx /\ ex.page \in ex.closed /\ ex.meta
              /\ ex' = NavLoop([(IF ex.page \in ex.closed THEN restorePage(ex, ok) ELSE ex)
                                   EXCEPT !.attempt = @ + 1])
       ELSE \E okInit \in BOOLEAN :
              LET healthy == /\ ex.b.connected /\ ex.b.context
                             /\ ex.mapped # NoHandle /\ ex.mapped \notin ex.closed
                  r == IF healthy THEN Untouched(ex.b) ELSE initialize(ex.b, okInit)
                  e1 == [ex EXCEPT !.b = r.bs,
                                   !.mapped = IF r.main = "same" THEN @
                                              ELSE IF r.main = "ok" THEN ex.nextHandle
                                              ELSE NoHandle,
                                   !.nextHandle = IF r.main = "ok" THEN @ + 1 ELSE @,
                                   !.closed = IF r.closed /\ ex.mapped # NoHandle
                                              THEN @ \cup {ex.mapped} ELSE @]
              IN /\ (healthy \/ initialize(ex.b, TRUE) = Untouched(ex.b)) => okInit
                 /\ ex' = IF r.threw
                          THEN [e1 EXCEPT !.pc = "navDone", !.result = "INIT_FAILED"]
                          ELSE NavLoop([e1 EXCEPT !.attempt = @ + 1])

InitNav ==
    /\ CrawlInit({}, {0}, 0)
    /\ PoolOff
    /\ ex \in {NavStart("pooled", n, BsReady) : n \in 0..MaxNavRetries}
              \cup {NavStart("single", n, b) : n \in 0..MaxNavRetries, b \in {BsFresh, BsReady}}
SpecNav == InitNav /\ [][NavBegin \/ NavGoto \/ NavSleepEnd]_vars

NavPcs == {"navStart", "goto", "navSleep", "navDone"}

(***************************************************************************)
(* C22.  Bounded navigation retry: navigateToUrl makes at most retries     *)
(* attempts and returns at the first page.goto that succeeds; after the    *)
(* failed attempt k < retries it sleeps retryDelay * k, so the delays      *)
(* increase strictly, and it does not sleep after the last attempt; when   *)
(* retries attempts have failed it throws NAVIGATION_FAILED carrying the   *)
(* error of the last one.                                                  *)
(***************************************************************************)
C22_BoundedNavigationRetry ==
    ex.pc \in NavPcs =>
        /\ Len(ex.gotos) <= ex.retries /\ ex.attempt <= ex.retries + 1
        /\ ex.lastError <= ex.retries
        /\ \A k \in 1..Len(ex.gotos) :
              ex.gotos[k].ok <=> (k = Len(ex.gotos) /\ ex.result = "returned")
        /\ Len(ex.waits) = Min(ex.lastError, IF ex.retries = 0 THEN 0 ELSE ex.retries - 1)
        /\ \A k \in 1..Len(ex.waits) :
              /\ ex.waits[k] = retryDelay * k
              /\ k > 1 => ex.waits[k - 1] < ex.waits[k]
        /\ ex.result = "NAVIGATION_FAILED" =>
              /\ ex.pc = "navDone" /\ ex.lastError = ex.retries /\ ex.cause = ex.lastError
              /\ ex.retries > 0 => Len(ex.waits) = ex.retries - 1
        /\ (ex.pc = "navDone" /\ ex.lastError = ex.retries) =>
              ex.result = "NAVIGATION_FAILED"

\* Three attempts failed, with sleeps of 2000 and 4000 between them, and
\* the call threw NAVIGATION_FAILED with the third error.
C22_ThrewAfterThree ==
    /\ ex.pc = "navDone" /\ ex.result = "NAVIGATION_FAILED" /\ ex.retries = 3
    /\ Len(ex.gotos) = 3 /\ ex.waits = <<2000, 4000>> /\ ex.cause = 3

(***************************************************************************)
(* C23.  Dead-page recreation during navigation: when the pooled           *)
(* navigateToUrl finds the page closed after a failed attempt, a page is   *)
(* registered again under the same page id before the next attempt, and    *)
(* every later page.goto of the call is made on the page then registered   *)
(* under that id, never on the closed one.                                 *)
(***************************************************************************)
C23_NavigatesRecreatedPage ==
    (ex.pc \in NavPcs /\ ex.version = "pooled") =>
        \A k \in 1..Len(ex.gotos) :
            ex.gotos[k].mapped # NoHandle => ex.gotos[k].target = ex.gotos[k].mapped

\* The page was closed during the first attempt and recreated during the
\* sleep; the second attempt called goto on the closed page, not on the
\* new one.
C23_NavigatedClosedPage ==
    /\ ex.pc \in NavPcs /\ ex.version = "pooled" /\ Len(ex.gotos) >= 2
    /\ ex.gotos[2].mapped = 2 /\ ex.gotos[2].target = 1 /\ 1 \in ex.closed
    /\ 2 \notin ex.closed /\ ~ex.gotos[2].ok

(***************************************************************************)
(* Part V.  waitForStableState, the same loop in both classes.  Time is    *)
(* Date.now() in milliseconds; a page.evaluate takes one of EvalTimes and  *)
(* answers true or false or throws; a sleep lasts POLL_INTERVAL.  run      *)
(* records the history: the times of the polls that answered true since    *)
(* the last poll that did not.                                             *)
(***************************************************************************)
STABILITY_THRESHOLD == 1000
POLL_INTERVAL == 300
MaxStableTimeout == 2400
StableTimeouts == {0, 1500, MaxStableTimeout}
EvalTimes == {0, 250}
ClockStart == 5000

StableStart(timeout) ==
    [pc |-> "stableStart", timeout |-> timeout, now |-> ClockStart, startTime |-> 0,
     stableStart |-> 0, run |-> << >>, polls |-> 0, result |-> "none"]

\* The test of the while loop, and the warning after it.
StableLoop(e) ==
    IF e.now - e.startTime < e.timeout THEN [e EXCEPT !.pc = "stablePoll"]
    ELSE [e EXCEPT !.pc = "stableDone", !.result = "timeout"]

\* The test of the dwell.
DwelledAtOnce(now, stableStart) == TRUE
Dwelled(now, stableStart) == now - stableStart > STABILITY_THRESHOLD

StableCall ==
    /\ ex.pc = "stableStart"
    /\ ex' = StableLoop([ex EXCEPT !.startTime = ex.now])
    /\ UNCHANGED <<crawlVars, pool, procs>>

\* One page.evaluate and what follows it up to the sleep or the return.
StablePoll ==
    /\ ex.pc = "stablePoll"
    /\ \E d \in EvalTimes, answer \in {"true", "false", "throws"} :
         LET e1 == [ex EXCEPT !.now = @ + d, !.polls = @ + 1,
                              !.run = IF answer = "true" THEN Append(@, ex.now + d) ELSE << >>]
         IN ex' = IF answer = "true"
                  THEN IF e1.stableStart = 0
                       THEN [e1 EXCEPT !.stableStart = e1.now, !.pc = "stableSleep"]
                       ELSE IF Dwelled(e1.now, e1.stableStart)
                       THEN [e1 EXCEPT !.pc = "stableDone", !.result = "stable"]
                       ELSE [e1 EXCEPT !.pc = "stableSleep"]
                  ELSE [e1 EXCEPT !.stableStart = 0, !.pc = "stableSleep"]
    /\ UNCHANGED <<crawlVars, pool, procs>>

StableSleepEnd ==
    /\ ex.pc = "stableSleep"
    /\ ex' = StableLoop([ex EXCEPT !.now = @ + POLL_INTERVAL])
    /\ UNCHANGED <<crawlVars, pool, procs>>

InitStable ==
    /\ CrawlInit({}, {0}, 0)
    /\ PoolOff
    /\ ex \in {StableStart(t) : t \in StableTimeouts}
SpecStable == InitStable /\ [][StableCall \/ StablePoll \/ StableSleepEnd]_vars

StablePcs == {"stableStart", "stablePoll", "stableSleep", "stableDone"}

(***************************************************************************)
(* C24.  Page-stability wait: waitForStableState reports the page stable   *)
(* only when the stability test answered true on consecutive polls the     *)
(* first and last of which are more than 1000 ms apart; a poll that        *)
(* answers false or throws resets the dwell to zero; when the timeout      *)
(* passes without that, the call returns normally; it never throws.        *)
(***************************************************************************)
C24_StableAfterDwell ==
    ex.pc \in StablePcs =>
        /\ ex.stableStart = IF ex.run = << >> THEN 0 ELSE ex.run[1]
        /\ \A k \in 2..Len(ex.run) : ex.run[k] - ex.run[k - 1] >= POLL_INTERVAL
        /\ ex.result = "stable" =>
              /\ Len(ex.run) >= 2
              /\ ex.run[Len(ex.run)] - ex.run[1] > STABILITY_THRESHOLD
              /\ ex.run[Len(ex.run)] = ex.now
        /\ ex.result = "timeout" =>
              ex.pc = "stableDone" /\ ex.now - ex.startTime >= ex.timeout
        /\ ex.result \in {"none", "stable", "timeout"}
        /\ ex.pc = "stableDone" <=> ex.result # "none"

\* A run of stable polls was broken by one that threw, the dwell began
\* again, and five consecutive stable polls later the page was reported
\* stable.
C24_StableAfterReset ==
    /\ ex.pc = "stableDone" /\ ex.result = "stable"
    /\ ex.polls > Len(ex.run) + 1 /\ Len(ex.run) = 5

(***************************************************************************)
(* Part VI.  handleComplexCaptcha on a page that shows a challenge, with   *)
(* solveSliderCaptcha one loop iteration at a time.  steps and order       *)
(* record the history: what every iteration of the slider loop did, and    *)
(* the remediation steps entered.  challenge says that isCaptchaPage       *)
(* answers true on the page, marker that the class of the wrapper was seen *)
(* to contain 'success' after a drag.                                      *)
(***************************************************************************)
MAX_ATTEMPTS == 3

CaptchaStart(ocrService) ==
    [pc |-> "captchaStart", ocrService |-> ocrService, attempt |-> 0, steps |-> << >>,
     order |-> << >>, slider |-> "none", result |-> "none", challenge |-> TRUE,
     marker |-> FALSE]

\* What one iteration of the slider loop can meet: no slider on the page,
\* no bounding box, an exception before or after the mouse went down, a
\* drag the wrapper reports as a success, or a failed drag followed by
\* refreshCaptcha: the control clicked, absent, or the click throwing.
SliderStep(kind, dragged, refresh) == [kind |-> kind, dragged |-> dragged, refresh |-> refresh]
SliderSteps ==
    {SliderStep("noSlider", FALSE, "none"), SliderStep("noBox", FALSE, "none"),
     SliderStep("threw", FALSE, "none"), SliderStep("threw", TRUE, "none"),
     SliderStep("success", TRUE, "none")}
    \cup {SliderStep("failed", TRUE, r) : r \in {"clicked", "absent", "clickThrew"}}

\* refreshCaptcha: true only when the control was there and the click
\* went through.
refreshCaptcha(step) == step.refresh = "clicked"

\* The test of the for loop.
SliderMoreUnbounded(attempt) == TRUE
SliderMore(attempt) == attempt <= MAX_ATTEMPTS

\* handleComplexCaptcha after solveSliderCaptcha answered false: OCR when
\* there is an ocrService, else the manual wait.
UsesOcrAlways(e) == TRUE
UsesOcr(e) == e.ocrService
AfterSlider(e) ==
    IF UsesOcr(e) THEN [e EXCEPT !.pc = "ocr", !.order = Append(@, "ocr")]
    ELSE [e EXCEPT !.pc = "manual", !.order = Append(@, "manual")]

\* The head of the slider loop, and the return after it.
SliderLoop(e) ==
    IF SliderMore(e.attempt) THEN [e EXCEPT !.pc = "slider"]
    ELSE AfterSlider([e EXCEPT !.slider = "exhausted"])

CaptchaSolved(e) == [e EXCEPT !.pc = "captchaDone", !.result = "true"]

\* handleComplexCaptcha is called: solveSliderCaptcha begins.
CaptchaCall ==
    /\ ex.pc = "captchaStart"
    /\ ex' = SliderLoop([ex EXCEPT !.attempt = 1, !.order = <<"slider">>])
    /\ UNCHANGED <<crawlVars, pool, procs>>

\* One iteration of the loop of solveSliderCaptcha.
SliderAttempt ==
    /\ ex.pc = "slider"
    /\ \E step \in SliderSteps :
         LET e1 == [ex EXCEPT !.steps = Append(@, step),
                              !.marker = @ \/ step.kind = "success"]
         IN ex' = IF step.kind \in {"noSlider", "success"}
                  THEN CaptchaSolved([e1 EXCEPT !.slider = "solved"])
                  ELSE IF step.kind = "failed" /\ refreshCaptcha(step)
                  THEN \* continue
                       SliderLoop([e1 EXCEPT !.attempt = @ + 1])
                  ELSE \* continue on no box, else the end of the loop body
                       SliderLoop([e1 EXCEPT !.attempt = @ + 1])
    /\ UNCHANGED <<crawlVars, pool, procs>>

\* tryOcrCaptcha: true when the text was submitted and the challenge is
\* gone; false when there is no image, no text, the challenge is still
\* there, or anything threw.
OcrStep ==
    /\ ex.pc = "ocr"
    /\ \E solved \in BOOLEAN :
         ex' = IF solved THEN CaptchaSolved([ex EXCEPT !.challenge = FALSE])
               ELSE [ex EXCEPT !.pc = "manual", !.order = Append(@, "manual")]
    /\ UNCHANGED <<crawlVars, pool, procs>>

\* promptManualCaptchaResolution and the last isCaptchaPage: the operator
\* solved the challenge, the three minutes passed, or waitForTimeout threw.
ManualStep ==
    /\ ex.pc = "manual"
    /\ \E outcome \in {"true", "false", "threw"} :
         ex' = [ex EXCEPT !.pc = "captchaDone", !.result = outcome,
                          !.challenge = outcome # "true"]
    /\ UNCHANGED <<crawlVars, pool, procs>>

InitCaptcha ==
    /\ CrawlInit({}, {0}, 0)
    /\ PoolOff
    /\ ex \in {CaptchaStart(o) : o \in BOOLEAN}
SpecCaptcha == InitCaptcha /\ [][CaptchaCall \/ SliderAttempt \/ OcrStep \/ ManualStep]_vars

CaptchaPcs == {"captchaStart", "slider", "ocr", "manual", "captchaDone"}
Drags(e) == Cardinality({k \in 1..Len(e.steps) : e.steps[k].dragged})

(***************************************************************************)
(* C25.  Bounded slider attempts: one call of solveSliderCaptcha goes      *)
(* through attempts 1, 2, 3 at most, each ending solved, or going on to    *)
(* the next attempt, or exhausted after the third; it drags at most three  *)
(* times, and an attempt that throws uses up one of the three.             *)
(***************************************************************************)
C25_BoundedSliderAttempts ==
    ex.pc \in CaptchaPcs =>
        /\ Len(ex.steps) <= MAX_ATTEMPTS /\ Drags(ex) <= MAX_ATTEMPTS
        /\ ex.pc = "slider" => ex.attempt = Len(ex.steps) + 1 /\ ex.attempt <= MAX_ATTEMPTS
        /\ \A k \in 1..Len(ex.steps) :
              ex.steps[k].kind \in {"noSlider", "success"}
                  <=> (k = Len(ex.steps) /\ ex.slider = "solved")
        /\ ex.slider = "exhausted" <=>
              (Len(ex.steps) = MAX_ATTEMPTS /\ ex.attempt = MAX_ATTEMPTS + 1)
        /\ ex.slider = "none" <=> ex.pc \in {"captchaStart", "slider"}

\* Two attempts threw, one of them with the mouse down, the third drag
\* failed: the solver is exhausted after three attempts.
C25_ExhaustedWithThrows ==
    /\ ex.pc \in CaptchaPcs /\ ex.slider = "exhausted" /\ Len(ex.steps) = 3
    /\ ex.steps[1] = SliderStep("threw", FALSE, "none")
    /\ ex.steps[2] = SliderStep("threw", TRUE, "none")
    /\ ex.steps[3].kind = "failed"

(***************************************************************************)
(* C26.  Refresh-or-escalate: after a failed drag the slider solver drags  *)
(* again only if the refresh control was there and was clicked; with no    *)
(* refresh control, or a click that failed, there is no further drag and   *)
(* the solver hands over to the next remediation step.                     *)
(***************************************************************************)
C26_RefreshOrEscalate ==
    ex.pc \in CaptchaPcs =>
        \A k \in 1..Len(ex.steps) :
            (ex.steps[k].kind = "failed" /\ ~refreshCaptcha(ex.steps[k])) =>
                /\ k = Len(ex.steps)
                /\ ex.pc # "slider"

\* The first drag failed and the page had no refresh control; the solver
\* dragged a second time all the same.
C26_DraggedWithoutRefresh ==
    /\ ex.pc \in CaptchaPcs /\ Len(ex.steps) >= 2
    /\ ex.steps[1] = SliderStep("failed", TRUE, "absent")
    /\ ex.steps[2].dragged

(***************************************************************************)
(* C27.  Escalation order: handleComplexCaptcha tries the slider drag,     *)
(* then optical recognition, then the manual wait, in that order; optical  *)
(* recognition only with an OCR service and only after the slider step     *)
(* failed, the manual wait only after the earlier steps failed or were     *)
(* absent; a step that succeeds ends the escalation.                       *)
(***************************************************************************)
C27_EscalationOrder ==
    ex.pc \in CaptchaPcs =>
        /\ ex.order \in {<< >>, <<"slider">>, <<"slider", "ocr">>, <<"slider", "manual">>,
                         <<"slider", "ocr", "manual">>}
        /\ ex.pc = "ocr" => ex.order = <<"slider", "ocr">>
        /\ ex.pc = "manual" => ex.order[Len(ex.order)] = "manual"
        /\ Len(ex.order) >= 2 => ex.slider = "exhausted"
        /\ (Len(ex.order) >= 2 /\ ex.order[2] = "ocr") => ex.ocrService
        /\ (Len(ex.order) >= 2 /\ ex.order[2] = "manual") => ~ex.ocrService
        /\ ex.slider = "solved" =>
              ex.pc = "captchaDone" /\ ex.result = "true" /\ ex.order = <<"slider">>
        /\ (ex.pc = "captchaDone" /\ ex.order = <<"slider", "ocr">>) => ex.result = "true"

\* With an OCR service: the slider was exhausted, optical recognition
\* failed, and the manual wait ended with the challenge solved.
C27_AllThreeSteps ==
    /\ ex.pc = "captchaDone" /\ ex.ocrService /\ ex.result = "true"
    /\ ex.order = <<"slider", "ocr", "manual">> /\ ex.slider = "exhausted"

(***************************************************************************)
(* The crawl next to the TianyanchaService: isLoggedIn is what its         *)
(* checkLoginStatus answers, loginSuccess what showLoginWindow answers.    *)
(* No step of the searches of AlibabaService reads either.                 *)
(***************************************************************************)
ensureLoggedIn(s) == IF s.isLoggedIn THEN TRUE ELSE s.loginSuccess

LoginFaults == 1
InitLogin ==
    /\ CrawlInit({1}, 1..MaxCap, LoginFaults)
    /\ PoolOff
    /\ ex \in {[pc |-> "login", isLoggedIn |-> a, loginSuccess |-> b] : a, b \in BOOLEAN}
SpecLogin == InitLogin /\ [][CrawlNext]_vars

(***************************************************************************)
(* C28.  Login precondition: a crawl for which ensureLoggedIn() answers    *)
(* false fails before its page loop starts: it navigates no search page    *)
(* and yields no batch, and it ends as failed.                             *)
(***************************************************************************)
C28_LoginPrecondition ==
    (ex.pc = "login" /\ ~ensureLoggedIn(ex)) =>
        \A c \in Callers :
            /\ ~InLoop(task[c])
            /\ task[c].yields = 0
            /\ task[c].pc = "done" => task[c].outcome = "failed"

\* Not logged in and the login window closed without a login: the crawl
\* ran all the same, yielded a batch and completed.
C28_CrawledWithoutLogin ==
    /\ ex.pc = "login" /\ ~ex.isLoggedIn /\ ~ex.loginSuccess
    /\ task[1].pc = "done" /\ task[1].outcome = "completed" /\ task[1].yields >= 1

(***************************************************************************)
(* Part VII.  One page from page.goto to its classification.  The content  *)
(* of a loaded page: spm, the body carries data-spm = supplier_search;     *)
(* noMore, #sse-less-result is visible; captcha, one of CAPTCHA_SELECTORS  *)
(* matches; wrapper, #nc_1_wrapper is there.  solverOn records the history:*)
(* the contents handleComplexCaptcha was called on.                        *)
(***************************************************************************)
PageContents == [spm : BOOLEAN, noMore : BOOLEAN, captcha : BOOLEAN, wrapper : BOOLEAN]

\* The page after a challenge was solved on it.
Cleared(content) ==
    {n \in PageContents : ~n.captcha /\ ~n.wrapper /\ (content.spm => n.spm)}

PageLoaded(content) ==
    [pc |-> "loaded", content |-> content, navAttempt |-> 1, solverOn |-> {},
     handledAs |-> "none"]

\* robustGoto after page.goto returned: isCaptchaPage, handleCaptchaIfPresent
\* and, when that answers false, the next attempt or return false.
AfterGoto ==
    /\ ex.pc = "loaded"
    /\ UNCHANGED <<crawlVars, pool, procs>>
    /\ IF ~ex.content.captcha \/ ~ex.content.wrapper
       THEN ex' = [ex EXCEPT !.pc = "classifyPage"]
       ELSE LET e1 == [ex EXCEPT !.solverOn = @ \cup {ex.content}]
            IN \E captchaSolved \in BOOLEAN :
                 IF captchaSolved
                 THEN \E n \in Cleared(ex.content) :
                        ex' = [e1 EXCEPT !.pc = "classifyPage", !.content = n]
                 ELSE IF ex.navAttempt < MAX_PAGE_RETRIES
                 THEN \E n \in PageContents :
                        ex' = [e1 EXCEPT !.navAttempt = @ + 1, !.content = n]
                 ELSE ex' = [e1 EXCEPT !.pc = "pageDone", !.handledAs = "NavigationFailed"]

\* The if chain of the page loop on the page robustGoto left.
ClassifyPage ==
    /\ ex.pc = "classifyPage"
    /\ UNCHANGED <<crawlVars, pool, procs>>
    /\ LET class == PageClass(ex.content)
       IN ex' = [ex EXCEPT !.pc = "pageDone", !.handledAs = class,
                           !.solverOn = IF class = "Challenge" THEN @ \cup {ex.content}
                                        ELSE @]

InitClassify ==
    /\ CrawlInit({}, {0}, 0)
    /\ PoolOff
    /\ ex \in {PageLoaded(content) : content \in PageContents}
SpecClassify == InitClassify /\ [][AfterGoto \/ ClassifyPage]_vars

ClassifyPcs == {"loaded", "classifyPage", "pageDone"}

(***************************************************************************)
(* C29.  Classifier precedence: a loaded page that carries the results     *)
(* marker is handled as Results or NoMoreResults, and the challenge solver *)
(* is never called on it, even when an anti-bot selector matches on that   *)
(* page too; the solver is called only on pages without the marker.        *)
(***************************************************************************)
C29_ResultsBeforeChallenge ==
    ex.pc \in ClassifyPcs =>
        /\ \A content \in ex.solverOn : ~content.spm
        /\ (ex.pc = "pageDone" /\ ex.content.spm) =>
              ex.handledAs \in {"Results", "NoMoreResults"}

\* A results page on which an anti-bot selector matched and the slider
\* wrapper was present: the solver was called on it after the navigation,
\* and the page was then handled as Results.
C29_SolverOnResultsPage ==
    /\ ex.pc = "pageDone" /\ ex.handledAs = "Results" /\ ex.navAttempt = 1
    /\ [spm |-> TRUE, noMore |-> FALSE, captcha |-> TRUE, wrapper |-> TRUE] \in ex.solverOn

\* The tabs the crawl created that are not closed.
OpenTabs(T) == {h \in Handles : T[h] \in {"ok", "crashed"}}

(***************************************************************************)
(* C30.  Strictly sequential pages: within one crawl the tab of page p + 1 *)
(* is acquired only when the outcome of page p is settled and its tab      *)
(* closed; at every point of the crawl at most one tab created by the      *)
(* crawl is open, also after the recovery of a failed navigation or        *)
(* extraction has run.                                                     *)
(***************************************************************************)
C30_OneTabAtATime ==
    [][/\ Cardinality(OpenTabs(tabs')) <= 1
       /\ \A c \in Callers :
             (task[c].pc = "loop" /\ task'[c].pc = "nav") =>
                 /\ OpenTabs(tabs) = {}
                 /\ OpenTabs(tabs') = {task'[c].page}]_vars

\* The navigation of page 1 failed and its recovery replaced the tab; the
\* replacement is still open and tracked while page 2 runs in its own tab.
C30_TwoTabsOpen ==
    \E c \in Callers :
        /\ task[c].pc = "nav" /\ task[c].pageNumber = 2 /\ task[c].attempt = 1
        /\ tabs[task[c].page] = "ok"
        /\ \E g \in activePages \ {task[c].page} : tabs[g] = "ok"
        /\ Cardinality(OpenTabs(tabs)) = 2

(***************************************************************************)
(* C31.  Solver success is real: whenever solveSliderCaptcha or            *)
(* handleComplexCaptcha reports success, the success marker of the wrapper *)
(* was seen after a drag, or the page no longer classifies as Challenge;   *)
(* success is never reported for a page that still classifies as Challenge *)
(* and showed no success marker.                                           *)
(***************************************************************************)
C31_SolverSuccessIsReal ==
    (ex.pc \in CaptchaPcs /\ (ex.slider = "solved" \/ ex.result = "true")) =>
        ex.marker \/ ~ex.challenge

\* The challenge page had no slider element: the slider solver answered
\* true without a drag, and handleComplexCaptcha reported success on a page
\* that is still a challenge.
C31_SuccessWithoutSlider ==
    /\ ex.pc = "captchaDone" /\ ex.result = "true" /\ ex.slider = "solved"
    /\ ex.steps = <<SliderStep("noSlider", FALSE, "none")>>
    /\ ex.challenge /\ ~ex.marker /\ Drags(ex) = 0

(***************************************************************************)
(* Part VIII.  promptManualCaptchaResolution.  Time is Date.now() in       *)
(* milliseconds; one isCaptchaPage takes one of ManualCheckTimes;          *)
(* navTimeout and opTimeout are the default navigation and operation       *)
(* timeouts of the page, 0 meaning none.                                   *)
(***************************************************************************)
ManualCheckTimes == {0, 300}
manualTimeout == 180000
ManualPollInterval == 5000
configTimeout == 60000

ManualStart(pageTimeout) ==
    [pc |-> "manualStart", now |-> ClockStart, startTime |-> 0, captchaResolved |-> FALSE,
     navTimeout |-> pageTimeout, opTimeout |-> pageTimeout, result |-> "none",
     lastCheck |-> 0]

\* The two calls after the loop.
RestoreTimeoutsNavOnly(e) == [e EXCEPT !.navTimeout = configTimeout]
RestoreTimeouts(e) == [e EXCEPT !.navTimeout = configTimeout, !.opTimeout = configTimeout]

\* The test of the while loop, and what follows the loop.
ManualLoop(e) ==
    IF ~e.captchaResolved /\ e.now - e.startTime < manualTimeout
    THEN [e EXCEPT !.pc = "manualPoll"]
    ELSE [RestoreTimeouts(e) EXCEPT !.pc = "manualDone", !.result = "returned"]

ManualCall ==
    /\ ex.pc = "manualStart"
    /\ ex' = ManualLoop([ex EXCEPT !.navTimeout = 0, !.opTimeout = 0, !.startTime = ex.now])
    /\ UNCHANGED <<crawlVars, pool, procs>>

\* captchaResolved = !(await isCaptchaPage(page)), up to the call of
\* waitForTimeout or the end of the loop.
ManualPoll ==
    /\ ex.pc = "manualPoll"
    /\ \E d \in ManualCheckTimes, resolved \in BOOLEAN :
         LET e1 == [ex EXCEPT !.now = @ + d, !.captchaResolved = resolved, !.lastCheck = d]
         IN ex' = IF resolved THEN ManualLoop(e1) ELSE [e1 EXCEPT !.pc = "manualWait"]
    /\ UNCHANGED <<crawlVars, pool, procs>>

\* page.waitForTimeout(5000) returns, or throws because the page is gone.
ManualWaitEnd ==
    /\ ex.pc = "manualWait"
    /\ \E ok \in BOOLEAN :
         ex' = IF ok THEN ManualLoop([ex EXCEPT !.now = @ + ManualPollInterval])
               ELSE [ex EXCEPT !.pc = "manualDone", !.result = "threw"]
    /\ UNCHANGED <<crawlVars, pool, procs>>

InitManual ==
    /\ CrawlInit({}, {0}, 0)
    /\ PoolOff
    /\ ex \in {ManualStart(t) : t \in {30000, configTimeout}}
SpecManual == InitManual /\ [][ManualCall \/ ManualPoll \/ ManualWaitEnd]_vars

ManualPcs == {"manualStart", "manualPoll", "manualWait", "manualDone"}

C33_UsableAfterIdleCleanup ==
    [][\A i \in Clients :
          (/\ procs[IdleProc].kind = "idle" /\ procs[IdleProc].pc = "off"
           /\ pool.state = "UNINITIALIZED"
           /\ procs[i].pc = "off" /\ procs'[i].pc # "off"
           /\ procs'[i].kind = "createPage")
          => (/\ procs'[i].pc = "waitInit"
              /\ procs'[InitProc].kind = "init" /\ procs'[InitProc].pc # "off")]_vars

\* createPage, called after the idle teardown, has thrown: nothing was
\* launched, the state is still UNINITIALIZED and no page is tracked.
C33_CreatePageFailedAfterIdle ==
    /\ procs[IdleProc].kind = "idle" /\ procs[IdleProc].pc = "off"
    /\ pool.state = "UNINITIALIZED" /\ ~pool.browser /\ pool.initPromise = "fulfilled"
    /\ pool.pages = {} /\ procs[InitProc].pc = "off"
    /\ pool.nextId = 2 /\ pool.faults = PoolFaults
    /\ pool.afterIdle \in Clients
    /\ procs[pool.afterIdle].kind = "createPage" /\ procs[pool.afterIdle].pc = "off"
    /\ procs[pool.afterIdle].result = "error"
    /\ \A i \in Clients : procs[i].pc = "off"

(***************************************************************************)
(* C34.  Health-check recovery: when a periodic health check fails while   *)
(* the state is READY and at least one page is tracked, the service        *)
(* re-initializes: the old session is cleaned up and a new browser is      *)
(* launched before the service is READY again.                             *)
(***************************************************************************)
C34_HealthCheckRecovery ==
    [][(/\ (pool.hc = "probe" /\ pool'.hc = "off") \/ pool'.ticks # pool.ticks
        /\ pool'.tick = "reinit"
        /\ pool.state = "READY" /\ pool.pages # {})
       => (/\ pool'.state = "INITIALIZING"
           /\ procs'[InitProc].kind = "init" /\ procs'[InitProc].pc = "c1")]_vars

\* The probe failed with the state READY and a page tracked, initialize()
\* was called, and nothing was cleaned up or launched: the state is READY
\* as before, with the same browser and the same pages.
C34_FailedCheckNoReinit ==
    /\ pool.tick = "reinit" /\ pool.hc = "off" /\ pool.state = "READY"
    /\ pool.pages # {} /\ pool.browser /\ pool.initPromise = "fulfilled"
    /\ procs[InitProc].kind = "init" /\ procs[InitProc].pc = "off"
    /\ pool.faults = HealthFaults
    /\ \A i \in Clients : procs[i].pc = "off" /\ procs[i].kind \in {"none", "createPage"}

(***************************************************************************)
(* C35.  Shared initialization: initialize() calls that overlap while the  *)
(* service is not READY share one initialization in flight: a call on a    *)
(* service that is not READY joins the round in flight or starts one, and  *)
(* starts none while one is in flight, so the browser is launched once a   *)
(* round; the callers of a round all resolve or all reject when it ends;   *)
(* after a failed round the state is ERROR and the next initialize()       *)
(* starts a new round.                                                     *)
(***************************************************************************)
C35_SharedInitialization ==
    [][/\ \A i \in Clients :
            (/\ procs[i].pc = "off" /\ procs'[i].kind = "initialize"
             /\ procs'[i] # procs[i] /\ pool.state # "READY")
            => (/\ procs'[i].pc = "waitInit"
                /\ procs'[InitProc].kind = "init" /\ procs'[InitProc].pc # "off"
                /\ procs[InitProc].pc # "off" => procs'[InitProc] = procs[InitProc])
       /\ \A i, j \in ProcIds :
            (/\ procs[i].pc = "waitInit" /\ procs'[i].pc # "waitInit"
             /\ procs[j].pc = "waitInit")
            => (/\ procs'[j].pc # "waitInit"
                /\ (procs'[i].result = "error") = (procs'[j].result = "error"))
       /\ (procs[InitProc].pc \in {"launch", "ctx"} /\ procs'[InitProc].pc = "off"
            /\ procs'[InitProc].result = "error")
            => (pool'.state = "ERROR" /\ pool'.initPromise = "null")]_vars

\* initialize() was called on a service that was not READY and returned at
\* once with the promise of an earlier round: no round ran for it, and the
\* service is still without a browser.
C35_ResolvedWithoutRound ==
    /\ \E i \in Clients : /\ procs[i].kind = "initialize" /\ procs[i].pc = "off"
                           /\ procs[i].result = "settled"
    /\ pool.state = "UNINITIALIZED" /\ pool.initPromise = "fulfilled"
    /\ ~pool.browser /\ procs[InitProc].pc = "off"
    /\ pool.nextId = 2 /\ pool.faults = PoolFaults

(***************************************************************************)
(* C36.  Running total: in searchSuppliersWithProgress every event yielded *)
(* carries a totalFound equal to the sum of the sizes of the batches       *)
(* yielded so far in the run, the current one included; totalFound never   *)
(* decreases, and a page that was skipped or failed adds nothing to it.    *)
(***************************************************************************)
C36_RunningTotal ==
    [][\A c \in Callers :
          (task[c].mode = "progress" /\ task'[c].mode = "progress") =>
             /\ task'[c].totalFound = task'[c].yieldedSum
             /\ task'[c].totalFound >= task[c].totalFound
             /\ task'[c].yields = task[c].yields =>
                   task'[c].totalFound = task[c].totalFound
             /\ task'[c].yields # task[c].yields =>
                   task'[c].totalFound = task[c].totalFound + task'[c].lastBatch]_vars

\* The second batch of a run has been yielded, after a failure was
\* injected: the event carries the sizes of both batches.
C36_TotalOverTwoBatches ==
    /\ task[1].mode = "progress" /\ task[1].pc = "yielded" /\ task[1].yields = 2
    /\ task[1].lastBatch > 0 /\ task[1].totalFound > task[1].lastBatch
    /\ task[1].totalFound = task[1].yieldedSum /\ faultsLeft < CancelFaults

(***************************************************************************)
(* Part IX.  The pages of the pooled BrowserService: setActivePage and the *)
(* 'crash' event of a page, which calls restorePage.  One restorePage is   *)
(* followed at a time.                                                     *)
(***************************************************************************)
PagesFaults == 1

\* setActivePage(pageId): throws when the page map has no such key.
PoolSetActivePage ==
    /\ \E id \in 1..(pool.nextId - 1) :
         pool' = IF id \in pool.pages THEN [pool EXCEPT !.activePageId = id] ELSE pool
    /\ UNCHANGED <<crawlVars, ex, procs>>

\* A tracked page crashes: its listener calls restorePage, which runs up to
\* the await of page.close().
PoolPageCrash ==
    /\ pool.restore.pc = "off"
    /\ \E id \in pool.pages \cap pool.pageMeta :
         pool' = [pool EXCEPT !.restore = [pc |-> "close", id |-> id, result |-> "none"]]
    /\ UNCHANGED <<crawlVars, ex, procs>>

\* restorePage after page.close(): pages.delete, then the new page is asked
\* of the context of the metadata; and after context.newPage(): the page is
\* registered again, or the catch deletes the metadata.
PoolRestoreStep ==
    /\ pool.restore.pc \in {"close", "newPage"}
    /\ UNCHANGED <<crawlVars, ex, procs>>
    /\ LET id == pool.restore.id
           failed == [pool EXCEPT !.pages = @ \ {id}, !.pageMeta = @ \ {id},
                                  !.restore = [pc |-> "off", id |-> id, result |-> "failed"]]
       IN IF pool.restore.pc = "close"
          THEN IF ~pool.ctx THEN pool' = failed
               ELSE pool' = [pool EXCEPT !.pages = @ \ {id}, !.restore.pc = "newPage"]
          ELSE \E ok \in BOOLEAN :
                 /\ ok => pool.browser /\ pool.connected /\ ~pool.closing /\ pool.ctxAlive
                 /\ IF ok
                    THEN pool' = [pool EXCEPT !.pages = @ \cup {id}, !.pageMeta = @ \cup {id},
                                     !.restore = [pc |-> "off", id |-> id,
                                                  result |-> "restored"]]
                    ELSE pool' = failed

InitPages ==
    /\ CrawlInit({}, {0}, 0) /\ ex = ExIdle
    /\ pool = [PoolFresh EXCEPT !.faults = PagesFaults]
    /\ procs = [i \in ProcIds |-> ProcOff]
\* One client calls the service.
SpecPages ==
    InitPages /\ [][\/ PoolCall(1) \/ PoolCreateStep(1) \/ PoolCloseStep(1)
                    \/ \E i \in ProcIds : PoolCleanupStep(i)
                    \/ doInitializeStep \/ PoolIdleFire \/ PoolCrash
                    \/ PoolSetActivePage \/ PoolPageCrash \/ PoolRestoreStep]_vars

\* No operation of the service is in progress.
PoolQuiet ==
    /\ \A i \in ProcIds : procs[i].pc = "off"
    /\ pool.restore.pc = "off" /\ pool.hc = "off"

(***************************************************************************)
(* C37.  Page bookkeeping consistency: in every state of the pooled        *)
(* BrowserService in which no page operation is in progress, the page map  *)
(* and the page-metadata map have the same keys and activePageId is null   *)
(* or a key of the page map, after any sequence of createPage,             *)
(* setActivePage, closePage, page crash and restore (successful or         *)
(* failed), cleanup and reset.                                             *)
(***************************************************************************)
C37_PageBookkeeping ==
    PoolQuiet => /\ pool.pages = pool.pageMeta
                 /\ pool.activePageId \in pool.pages \cup {NoPageId}

\* The restore of the crashed active page failed: the page is gone from
\* both maps and activePageId still names it, with the service READY.
C37_ActivePageGone ==
    /\ PoolQuiet /\ pool.restore.result = "failed"
    /\ pool.activePageId = pool.restore.id /\ pool.activePageId \notin pool.pages
    /\ pool.pages = pool.pageMeta /\ pool.state = "READY" /\ pool.browser

(***************************************************************************)
(* Part X.  terminate() of the pooled BrowserService: state = CLOSED,      *)
(* stopHealthCheck, then cleanup(), whose steps are those of               *)
(* PoolCleanupStep.                                                        *)
(***************************************************************************)
PoolTerminate(i) ==
    /\ procs[i].pc = "off"
    /\ LET cb == cleanupBegin(stopHealthCheck([pool EXCEPT !.state = "CLOSED"]),
                              [ProcOff EXCEPT !.kind = "terminate"])
       IN pool' = cb.pool /\ procs' = [procs EXCEPT ![i] = cb.proc]
    /\ UNCHANGED <<crawlVars, ex>>

\* One client calls the service.
SpecTerminate ==
    InitPages /\ [][\/ PoolCall(1) \/ PoolCreateStep(1) \/ PoolCloseStep(1)
                    \/ PoolTerminate(1)
                    \/ \E i \in ProcIds : PoolCleanupStep(i)
                    \/ doInitializeStep \/ PoolIdleFire \/ PoolCrash]_vars

(***************************************************************************)
(* C38.  terminate() is final: after terminate() on the pooled             *)
(* BrowserService has completed, and until the client calls the service    *)
(* again, the state is CLOSED with no browser, context or page left; the   *)
(* 'disconnected' event of the browser that terminate() itself closes      *)
(* neither changes the state nor launches a new browser.                   *)
(***************************************************************************)
C38_TerminateIsFinal ==
    (procs[1].kind = "terminate" /\ procs[1].pc = "off") =>
        /\ pool.state = "CLOSED"
        /\ ~pool.browser /\ ~pool.ctx /\ pool.pages = {}
        /\ procs[InitProc].pc = "off"

\* terminate() has returned on a service that was READY and healthy: the
\* 'disconnected' event of its own browser.close() has set the state ERROR.
C38_ErrorAfterTerminate ==
    /\ procs[1].kind = "terminate" /\ procs[1].pc = "off" /\ procs[1].result = "ok"
    /\ pool.state = "ERROR" /\ ~pool.browser /\ pool.pages = {}
    /\ pool.faults = PagesFaults /\ pool.initPromise = "fulfilled"
    /\ procs[InitProc].pc = "off" /\ procs[IdleProc].kind = "none"

(***************************************************************************)
(* C39.  Timer hygiene: at most one idle-cleanup timer is pending at any   *)
(* time, and when cleanup(), terminate() or reset() has completed no       *)
(* idle-cleanup timer and no health-check timer armed before the call is   *)
(* pending, also when the teardown itself closed the last tracked pages.   *)
(***************************************************************************)
C39_TimerHygiene ==
    [][/\ pool'.stray = 0
       /\ \A i \in ProcIds :
            (\/ procs[i].pc \in {"c2", "c3"} /\ procs'[i].pc \notin {"c1", "c2", "c3"}
             \/ /\ procs[i].kind \in {"reset", "terminate"}
                /\ procs[i].pc # "off" /\ procs'[i].pc = "off")
            => (/\ pool'.idle = "pending" => ~procs[i].oldIdle
                /\ pool'.health => ~procs[i].oldHealth)]_vars

\* terminate() was called on a healthy service with pages tracked and its
\* health check running; it has returned: the health check is stopped, and
\* the one idle timer pending is the one that the closePage of its teardown
\* armed.
C39_TimerOfTheTeardown ==
    /\ procs[1].kind = "terminate" /\ procs[1].pc = "off"
    /\ pool.idle = "pending" /\ pool.stray = 0
    /\ pool.pages = {} /\ ~pool.health /\ pool.nextId = 3
    /\ pool.faults = PagesFaults /\ procs[IdleProc].kind = "none"

====
